---- MODULE Spec2Model ----
(***************************************************************************)
(* A model of the weathrs core: the daily API call budget                  *)
(* (src/api_budget.rs), the budget-gated history backfill                  *)
(* (src/backfill/runner.rs, src/history/service.rs), the notification      *)
(* fan-out (src/notifications/mod.rs) and the job scheduler                *)
(* (src/scheduler/service.rs, src/scheduler/storage.rs).                   *)
(*                                                                         *)
(* Each subsystem has its own specification over the shared variables:     *)
(*   SpecBudget      one caller using an ApiCallBudget sequentially        *)
(*   SpecBudgetConc  several callers inside the budget's methods at once   *)
(*   SpecBackfill    one run_backfill, on-demand history requests, clock   *)
(*   SpecNotify      NotificationService::send                             *)
(*   SpecSched       SchedulerService init/create/update/delete            *)
(***************************************************************************)
EXTENDS Integers, Sequences, FiniteSets, TLC

VARIABLES
    utc_day,      \* chrono::Utc::now().timestamp() / 86400, the wall clock's UTC day
    budget,       \* the ApiCallBudget: [daily_limit, calls_today, current_day]
    bseq,         \* observer of the sequential caller: last method, its return, counts
    callers,      \* per concurrent caller: position inside a budget method and its locals
    bconc,        \* observer of the concurrent callers: rollovers, resets, marker changes
    missing,      \* history store: per city, the UTC days of the window not stored yet
    run,          \* the run_backfill task: position in the city loop and its locals
    fetched,      \* observer of upstream timemachine fetches: today's count, requests made
    nsvc,         \* the NotificationService: which backends are configured (Some / None)
    send,         \* the NotificationService::send call in flight and its outcome
    storage,      \* JobStorage.jobs: the in-memory map from job id to ForecastJob
    file,         \* the job file on disk, as last written by JobStorage::save
    job_uuids,    \* SchedulerService.job_uuids: job id -> the cron engine's handle
    scheduler,    \* the cron engine (JobScheduler): its registrations, by handle
    sched,        \* observer of the scheduler service: last call, its result, counters
    ops,          \* per concurrent caller of the scheduler service: the call in flight
    sops,         \* per caller of the JobStorage: the upsert / remove in flight
    rlock,        \* the callers holding a read guard of JobStorage.jobs
    acked,        \* observer: per job id, the job of its last upsert that returned Ok
    cache,        \* the TtlCache: [data: key -> [value, expires_at], ttl]
    now,          \* Instant::now(), the monotonic clock
    cobs,         \* observer of the cache: last call, its return, the data before it
    table,        \* the weather_history table: a set of HistoryRecord rows
    hobs,         \* observer of the history repository: last call, arguments, result
    build,        \* build_city_list: its arguments and the list it returned
    weather,      \* the forecast snapshot the forecast service returns on success
    device_storage, \* the registered devices (DevicesService.storage)
    tick,         \* observer of the last scheduled tick: fetches, pushes sent
    trig,         \* observer of the last manual trigger: fetches, pushes, status
    trend,        \* compute_trend_summary: the days given and the summary returned
    expo          \* ExpoClient::send_to_tokens: tokens, network calls, results

bfVars == <<missing, run, fetched>>
ntVars == <<nsvc, send>>
scVars == <<storage, file, job_uuids, scheduler, sched>>
\* The variables of the components specified further down.
jsVars == <<sops, rlock, acked>>
chVars == <<cache, now, cobs>>
hrVars == <<table, hobs>>
tkVars == <<weather, device_storage, tick, trig>>
pureVars == <<trend, expo>>
restVars == <<ops, jsVars, chVars, hrVars, build, tkVars, pureVars>>
vars == <<utc_day, budget, bseq, callers, bconc, missing, run, fetched,
          nsvc, send, storage, file, job_uuids, scheduler, sched, restVars>>

(***************************************************************************)
(* Bounds of the model.                                                    *)
(***************************************************************************)
MaxLimit == 2          \* daily limits 0..MaxLimit
MaxDay == 2            \* the clock runs over days 0..MaxDay
MaxRecordCalls == 4    \* record_call() calls of the sequential caller
NCallers == 2          \* concurrent callers
MaxCallerOps == 2      \* budget methods each concurrent caller starts

Max(a, b) == IF a >= b THEN a ELSE b

(***************************************************************************)
(* ApiCallBudget, used by one caller at a time: each method is one step.   *)
(* calls_today is an AtomicU32; the daily reset and the bounds keep it far *)
(* below 2^32, so it is modelled as a natural number.                      *)
(***************************************************************************)
NewBudget(limit, today) ==
    [daily_limit |-> limit, calls_today |-> 0, current_day |-> today]

\* u32::saturating_sub
SaturatingSub_Plain(a, b) == a - b
SaturatingSub(a, b) == IF a >= b THEN a - b ELSE 0

\* maybe_reset with no other caller inside it: the compare_exchange succeeds.
MaybeReset(b, today) ==
    IF today # b.current_day
    THEN [b EXCEPT !.current_day = today, !.calls_today = 0]
    ELSE b

\* record_call: maybe_reset, fetch_add(1), prev < daily_limit.
RecordCall_OffByOne(b, today) ==
    LET r == MaybeReset(b, today)
    IN  [b |-> [r EXCEPT !.calls_today = @ + 1],
         ret |-> r.calls_today <= r.daily_limit]
RecordCall(b, today) ==
    LET r == MaybeReset(b, today)
    IN  [b |-> [r EXCEPT !.calls_today = @ + 1],
         ret |-> r.calls_today < r.daily_limit]

\* remaining: maybe_reset, load, daily_limit.saturating_sub(used).
Remaining(b, today) ==
    LET r == MaybeReset(b, today)
    IN  [b |-> r, ret |-> SaturatingSub(r.daily_limit, r.calls_today)]

\* used_today: maybe_reset, load.
UsedToday(b, today) ==
    LET r == MaybeReset(b, today)
    IN  [b |-> r, ret |-> r.calls_today]

(***************************************************************************)
(* The clock: the UTC day advances.                                        *)
(***************************************************************************)
ClockInit == utc_day = 0

IdleCallers == [t \in 1..NCallers |->
                  [pc |-> "idle", op |-> "none", today |-> 0, stored |-> 0,
                   ret |-> "none", ops |-> 0]]
BConcInit == [rollovers |-> 0, resets |-> 0, marker_changes |-> 0,
              marker_back |-> FALSE, stale_access |-> FALSE,
              n_record |-> 0, n_true |-> 0]
BSeqInit == [op |-> "new", ret |-> "none", n_record |-> 0, rolled |-> FALSE]

\* The backfill part at rest (used by the specifications that do not run it).
RunIdle == [pc |-> "idle", cities |-> <<>>, idx |-> 0, days |-> <<>>,
            n_start |-> 0, fetches |-> 0, order |-> <<>>, exhausted |-> FALSE,
            rolled |-> FALSE, last |-> "none", slept |-> FALSE,
            prev |-> [idx |-> 0, days |-> <<>>]]
FetchedInit == [today |-> 0, requests |-> 0]
BackfillIdle ==
    /\ missing = <<>>
    /\ run = RunIdle
    /\ fetched = FetchedInit

\* The notification part at rest.
NoResult == [kind |-> "none", from |-> "none"]
SendIdle == [pc |-> "idle", msg |-> "none", errors |-> <<>>, ok |-> {},
             attempts |-> [ntfy |-> 0, gotify |-> 0], result |-> NoResult]
NotifyIdle ==
    /\ nsvc = [ntfy |-> FALSE, gotify |-> FALSE]
    /\ send = SendIdle

\* The scheduler part at rest.
SchedObsInit == [phase |-> "new", op |-> "new", id |-> "none", result |-> "none",
                 removed |-> FALSE, all_ok |-> TRUE, errors |-> {},
                 changed |-> FALSE, existed |-> FALSE, had_handle |-> FALSE]
SchedIdle ==
    /\ storage = <<>>
    /\ file = <<>>
    /\ job_uuids = <<>>
    /\ scheduler = <<>>
    /\ sched = SchedObsInit

\* The callers that are inside the scheduler service at the same time, and a
\* caller that is in no call.
SvcCallers == {"a", "b"}
NoJob == [id |-> "none", cron |-> "none", timezone |-> "none", enabled |-> FALSE,
          notify |-> FALSE]
OpIdle == [pc |-> "idle", op |-> "none", job |-> NoJob, uuid |-> "none"]
OpsIdle == ops = [c \in SvcCallers |-> OpIdle]

\* The callers of the JobStorage; each works on a job id of its own.
StCallers == {"a", "b"}
StOpIdle == [pc |-> "idle", op |-> "none",
             job |-> [id |-> "none", name |-> "none", heat_threshold |-> "None"],
             content |-> <<>>]
StorageIdle ==
    /\ sops = [c \in StCallers |-> StOpIdle]
    /\ rlock = {}
    /\ acked = <<>>

NoInsert == [key |-> "none", value |-> "none", at |-> 0]
CObsInit == [op |-> "new", key |-> "none", ret |-> "none", before |-> <<>>,
             at |-> 0, last_insert |-> NoInsert]
CacheIdle ==
    /\ cache = [data |-> <<>>, ttl |-> 0]
    /\ now = 0
    /\ cobs = CObsInit

NoQuery == [city |-> "none", start_ts |-> 0, end_ts |-> 0, interval_secs |-> 0,
            units |-> "none"]
HObsInit == [op |-> "new", before |-> {}, batch |-> <<>>, query |-> NoQuery,
             inserted |-> 0, missing |-> <<>>]
RepoIdle ==
    /\ table = {}
    /\ hobs = HObsInit

BuildIdle == [devices |-> <<>>, jobs |-> <<>>, fallback |-> <<>>, cities |-> <<>>,
              built |-> FALSE]

\* Option<f64> and Option<CurrentWeatherResponse>: None, or Some of a value.
None == [some |-> FALSE, v |-> 0]
Some(x) == [some |-> TRUE, v |-> x]
NoWeather == [current |-> None, daily |-> <<>>, alerts |-> <<>>]
RunIdleObs == [op |-> "none", fetches |-> 0, fetched |-> "none", pushes |-> <<>>,
               status |-> "none"]
TrendIdle == [days |-> <<>>, summary |-> [avg_temp |-> 0, temp_trend |-> "none"],
              computed |-> FALSE]
ExpoIdle == [tokens |-> <<>>, calls |-> <<>>, results |-> <<>>, sent |-> FALSE]
PureIdle ==
    /\ trend = TrendIdle
    /\ expo = ExpoIdle

TickIdle ==
    /\ weather = NoWeather
    /\ device_storage = {}
    /\ tick = RunIdleObs
    /\ trig = RunIdleObs

RestIdle ==
    /\ OpsIdle
    /\ StorageIdle
    /\ CacheIdle
    /\ RepoIdle
    /\ build = BuildIdle
    /\ TickIdle
    /\ PureIdle

(***************************************************************************)
(* SpecBudget: a fresh budget used sequentially.                           *)
(***************************************************************************)
InitBudget ==
    /\ ClockInit
    /\ \E l \in 0..MaxLimit : budget = NewBudget(l, 0)
    /\ bseq = BSeqInit
    /\ callers = IdleCallers
    /\ bconc = BConcInit
    /\ BackfillIdle
    /\ NotifyIdle
    /\ SchedIdle
    /\ RestIdle

SeqTick ==
    /\ utc_day < MaxDay
    /\ utc_day' = utc_day + 1
    /\ bseq' = [bseq EXCEPT !.rolled = TRUE]
    /\ UNCHANGED <<budget, callers, bconc, bfVars, ntVars, scVars, restVars>>

SeqRecordCall ==
    /\ bseq.n_record < MaxRecordCalls
    /\ LET r == RecordCall(budget, utc_day)
       IN  /\ budget' = r.b
           /\ bseq' = [bseq EXCEPT !.op = "record_call", !.ret = r.ret,
                                   !.n_record = @ + 1]
    /\ UNCHANGED <<utc_day, callers, bconc, bfVars, ntVars, scVars, restVars>>

SeqRemaining ==
    /\ LET r == Remaining(budget, utc_day)
       IN  /\ budget' = r.b
           /\ bseq' = [bseq EXCEPT !.op = "remaining", !.ret = r.ret]
    /\ UNCHANGED <<utc_day, callers, bconc, bfVars, ntVars, scVars, restVars>>

SeqUsedToday ==
    /\ LET r == UsedToday(budget, utc_day)
       IN  /\ budget' = r.b
           /\ bseq' = [bseq EXCEPT !.op = "used_today", !.ret = r.ret]
    /\ UNCHANGED <<utc_day, callers, bconc, bfVars, ntVars, scVars, restVars>>

NextBudget == SeqTick \/ SeqRecordCall \/ SeqRemaining \/ SeqUsedToday

SpecBudget == InitBudget /\ [][NextBudget]_vars

\* C3: for every daily limit L and a fresh budget used sequentially within one
\* UTC day, the k-th record_call() returns true iff k <= L.
C3_KthRecordCallWithinBudgetIffKLeLimit ==
    (bseq.op = "record_call" /\ ~bseq.rolled)
        => (bseq.ret = (bseq.n_record <= budget.daily_limit))

C3_Witness ==
    /\ bseq.op = "record_call" /\ ~bseq.rolled
    /\ budget.daily_limit = 2
    /\ bseq.n_record = budget.daily_limit + 1
    /\ bseq.ret = FALSE

\* C5: after any sequence of record_call() calls within one UTC day, remaining()
\* is max(limit - used_today(), 0), never negative, 0 from the limit-th call on,
\* and used_today() counts every attempted call, the over-budget ones too; a
\* remaining() or used_today() that was just called returned exactly that.
C5_RemainingSaturatesUsedCountsAll ==
    ~bseq.rolled =>
        /\ UsedToday(budget, utc_day).ret = bseq.n_record
        /\ Remaining(budget, utc_day).ret = Max(budget.daily_limit - bseq.n_record, 0)
        /\ Remaining(budget, utc_day).ret >= 0
        /\ (bseq.n_record >= budget.daily_limit => Remaining(budget, utc_day).ret = 0)
        /\ (bseq.op = "remaining" =>
                bseq.ret = Max(budget.daily_limit - bseq.n_record, 0))
        /\ (bseq.op = "used_today" => bseq.ret = bseq.n_record)

C5_Witness ==
    /\ ~bseq.rolled
    /\ bseq.op = "remaining"
    /\ bseq.n_record > budget.daily_limit + 1
    /\ budget.daily_limit > 0
    /\ bseq.ret = 0

(***************************************************************************)
(* SpecBudgetConc: callers inside record_call / remaining / used_today at  *)
(* the same time.  Each atomic access of the code is one step:             *)
(*   "now"    let today = Self::utc_day_now()                              *)
(*   "load"   let stored = self.current_day.load()                         *)
(*   "cas"    self.current_day.compare_exchange(stored, today)             *)
(*   "store"  self.calls_today.store(0)                                    *)
(*   "op"     the fetch_add / load of the method that called maybe_reset   *)
(*   "op_lost" the same, reached by losing the compare_exchange            *)
(* bconc counts the rollovers, resets and marker changes, the completed    *)
(* record_call calls and those that returned true, and notes a loser of    *)
(* the compare_exchange that made its access before the winner's store.    *)
(***************************************************************************)
Callers == 1..NCallers
BudgetMethods == {"record_call", "remaining", "used_today"}

InitBudgetConc ==
    /\ ClockInit
    /\ \E l \in 0..MaxLimit : budget = NewBudget(l, 0)
    /\ bseq = BSeqInit
    /\ callers = IdleCallers
    /\ bconc = BConcInit
    /\ BackfillIdle
    /\ NotifyIdle
    /\ SchedIdle
    /\ RestIdle

ConcTick ==
    /\ utc_day < MaxDay
    /\ utc_day' = utc_day + 1
    /\ bconc' = [bconc EXCEPT !.rollovers = @ + 1]
    /\ UNCHANGED <<budget, bseq, callers, bfVars, ntVars, scVars, restVars>>

\* A caller enters one of the three methods; each starts with maybe_reset().
CallerEnter(t) ==
    /\ callers[t].pc = "idle"
    /\ callers[t].ops < MaxCallerOps
    /\ \E m \in BudgetMethods :
         callers' = [callers EXCEPT ![t] = [@ EXCEPT !.pc = "now", !.op = m,
                                                     !.ret = "none", !.ops = @ + 1]]
    /\ UNCHANGED <<utc_day, budget, bseq, bconc, bfVars, ntVars, scVars, restVars>>

CallerReadClock(t) ==
    /\ callers[t].pc = "now"
    /\ callers' = [callers EXCEPT ![t] = [@ EXCEPT !.pc = "load", !.today = utc_day]]
    /\ UNCHANGED <<utc_day, budget, bseq, bconc, bfVars, ntVars, scVars, restVars>>

CallerLoadDay(t) ==
    /\ callers[t].pc = "load"
    /\ callers' = [callers EXCEPT ![t] =
                     [@ EXCEPT !.stored = budget.current_day,
                               !.pc = IF callers[t].today # budget.current_day
                                      THEN "cas" ELSE "op"]]
    /\ UNCHANGED <<utc_day, budget, bseq, bconc, bfVars, ntVars, scVars, restVars>>

CallerCompareExchange(t) ==
    /\ callers[t].pc = "cas"
    /\ IF budget.current_day = callers[t].stored
       THEN /\ budget' = [budget EXCEPT !.current_day = callers[t].today]
            /\ callers' = [callers EXCEPT ![t] = [@ EXCEPT !.pc = "store"]]
            /\ bconc' = [bconc EXCEPT
                           !.marker_changes = @ + 1,
                           !.marker_back = @ \/ callers[t].today < budget.current_day]
       ELSE /\ callers' = [callers EXCEPT ![t] = [@ EXCEPT !.pc = "op_lost"]]
            /\ UNCHANGED <<budget, bconc>>
    /\ UNCHANGED <<utc_day, bseq, bfVars, ntVars, scVars, restVars>>

CallerStoreZero(t) ==
    /\ callers[t].pc = "store"
    /\ budget' = [budget EXCEPT !.calls_today = 0]
    /\ callers' = [callers EXCEPT ![t] = [@ EXCEPT !.pc = "op"]]
    /\ bconc' = [bconc EXCEPT !.resets = @ + 1]
    /\ UNCHANGED <<utc_day, bseq, bfVars, ntVars, scVars, restVars>>

\* A winner of the compare_exchange that has not stored the zero yet.
ResetPending == \E w \in Callers : callers[w].pc = "store"

CallerAccess_InclusiveLimit(t) ==
    /\ callers[t].pc \in {"op", "op_lost"}
    /\ budget' = IF callers[t].op = "record_call"
                 THEN [budget EXCEPT !.calls_today = @ + 1]
                 ELSE budget
    /\ callers' = [callers EXCEPT ![t] =
          [@ EXCEPT !.pc = "idle",
                    !.ret = CASE callers[t].op = "record_call" ->
                                   budget.calls_today <= budget.daily_limit
                              [] callers[t].op = "remaining" ->
                                   SaturatingSub(budget.daily_limit, budget.calls_today)
                              [] OTHER -> budget.calls_today]]
    /\ bconc' = [bconc EXCEPT
          !.stale_access = @ \/ (callers[t].pc = "op_lost" /\ ResetPending),
          !.n_record = IF callers[t].op = "record_call" THEN @ + 1 ELSE @,
          !.n_true = IF /\ callers[t].op = "record_call"
                        /\ budget.calls_today <= budget.daily_limit
                     THEN @ + 1 ELSE @]
    /\ UNCHANGED <<utc_day, bseq, bfVars, ntVars, scVars, restVars>>

CallerAccess(t) ==
    /\ callers[t].pc \in {"op", "op_lost"}
    /\ budget' = IF callers[t].op = "record_call"
                 THEN [budget EXCEPT !.calls_today = @ + 1]
                 ELSE budget
    /\ callers' = [callers EXCEPT ![t] =
          [@ EXCEPT !.pc = "idle",
                    !.ret = CASE callers[t].op = "record_call" ->
                                   budget.calls_today < budget.daily_limit
                              [] callers[t].op = "remaining" ->
                                   SaturatingSub(budget.daily_limit, budget.calls_today)
                              [] OTHER -> budget.calls_today]]
    /\ bconc' = [bconc EXCEPT
          !.stale_access = @ \/ (callers[t].pc = "op_lost" /\ ResetPending),
          !.n_record = IF callers[t].op = "record_call" THEN @ + 1 ELSE @,
          !.n_true = IF /\ callers[t].op = "record_call"
                        /\ budget.calls_today < budget.daily_limit
                     THEN @ + 1 ELSE @]
    /\ UNCHANGED <<utc_day, bseq, bfVars, ntVars, scVars, restVars>>

NextBudgetConc ==
    \/ ConcTick
    \/ \E t \in Callers : CallerEnter(t)
    \/ \E t \in Callers : CallerReadClock(t)
    \/ \E t \in Callers : CallerLoadDay(t)
    \/ \E t \in Callers : CallerCompareExchange(t)
    \/ \E t \in Callers : CallerStoreZero(t)
    \/ \E t \in Callers : CallerAccess(t)

SpecBudgetConc == InitBudgetConc /\ [][NextBudgetConc]_vars

\* C4: across one UTC day rollover, whatever callers race inside the budget's
\* methods, the day marker changes exactly once (old day to new day) and the
\* counter is zeroed by exactly one caller: never more marker changes or resets
\* than rollovers, and the marker never moves back to an earlier day.
C4_ResetExactlyOncePerRollover ==
    /\ bconc.resets <= bconc.rollovers
    /\ bconc.marker_changes <= bconc.rollovers
    /\ ~bconc.marker_back

\* C24: a caller that lost the compare_exchange on the day marker makes its
\* load or fetch_add on the already-reset counter: never while the winner's
\* store of zero is still to come (when it would read the previous day's
\* count and its increment would be erased).
C24_LoserObservesResetCounter == ~bconc.stale_access

\* C25: while the UTC day does not change, of the n record_call calls
\* completed by the concurrent callers exactly min(n, limit) returned true and
\* the counter equals n.
C25_ConcurrentRecordCallsWithinDay ==
    bconc.rollovers = 0 =>
        /\ bconc.n_true = (IF bconc.n_record < budget.daily_limit
                           THEN bconc.n_record ELSE budget.daily_limit)
        /\ budget.calls_today = bconc.n_record
        /\ \A t \in Callers : callers[t].pc \notin {"cas", "store", "op_lost"}

\* Within one day both callers completed two record_call calls each against
\* a limit of two, the last two started before either had finished.
C25_Witness ==
    /\ bconc.rollovers = 0
    /\ budget.daily_limit = 2
    /\ bconc.n_record = 3
    /\ bconc.n_true = 2
    /\ \A t \in Callers : callers[t].op = "record_call"
    /\ \E t \in Callers : callers[t].pc = "op" /\ callers[t].ops = 2
    /\ \E t \in Callers : callers[t].pc = "idle" /\ callers[t].ret = FALSE

(***************************************************************************)
(* SpecBackfill: the scheduled run_backfill, on-demand history requests    *)
(* and the clock.  A city's missing UTC days stand for its missing hourly  *)
(* buckets: one timemachine call fetches one day.                          *)
(***************************************************************************)
BfMaxLimit == 1        \* daily limits 0..BfMaxLimit of this specification
BfMaxDay == 1          \* the clock of this specification runs over days 0..BfMaxDay
MaxRequests == 1       \* on-demand history / trend requests
MAX_DAYS_PER_REQUEST == 90

Cities == {"austin", "boston", "chicago"}
Days == {1, 2}         \* the UTC days of the backfill window

\* The lists build_city_list can hand to a run: duplicate-free.  The store's
\* contents are arbitrary per city, so one priority order and its prefixes
\* cover every list up to renaming of the cities.
CityOrder == <<"chicago", "austin", "boston">>
CityLists == {SubSeq(CityOrder, 1, n) : n \in 0..Len(CityOrder)}

RECURSIVE SortedSeq(_)
SortedSeq(S) ==
    IF S = {} THEN <<>>
    ELSE LET m == CHOOSE x \in S : \A y \in S : x <= y
         IN  <<m>> \o SortedSeq(S \ {m})

Take(q, n) == IF Len(q) <= n THEN q ELSE SubSeq(q, 1, n)
SeqRange(q) == {q[i] : i \in DOMAIN q}

\* get_missing_days(city, start, end, units): the window's days with no record,
\* ascending.
GetMissingDays(m, c) == SortedSeq(m[c])

\* fetch_day_if_budget(city, location, day, units): record_call() before the
\* upstream fetch; Ok(None) when the call was over budget, else the fetch.
FetchDayIfBudget(b, today) ==
    LET r == RecordCall(b, today)
    IN  [b |-> r.b, granted |-> r.ret]

\* runner.rs:86  `if budget.remaining() == 0 { break; }`
BudgetExhausted_Never(b, today) == FALSE
BudgetExhausted(b, today) == Remaining(b, today).ret = 0

\* The budget is shared with earlier runs of the same day, so a run can start
\* with any number of calls already recorded.
InitBackfill ==
    /\ ClockInit
    /\ \E l \in 0..BfMaxLimit : \E used \in 0..l :
         budget = [NewBudget(l, 0) EXCEPT !.calls_today = used]
    /\ bseq = BSeqInit
    /\ callers = IdleCallers
    /\ bconc = BConcInit
    /\ missing \in [Cities -> SUBSET Days]
    /\ run = RunIdle
    /\ fetched = FetchedInit
    /\ NotifyIdle
    /\ SchedIdle
    /\ RestIdle

BfUnchanged == UNCHANGED <<bseq, callers, bconc, ntVars, scVars, restVars>>

BfTick ==
    /\ utc_day < BfMaxDay
    /\ utc_day' = utc_day + 1
    /\ fetched' = [fetched EXCEPT !.today = 0]
    /\ run' = IF run.pc \in {"idle", "done"} THEN run
              ELSE [run EXCEPT !.rolled = TRUE]
    /\ UNCHANGED <<budget, missing>>
    /\ BfUnchanged

\* run_backfill up to the city loop: the city list, the empty-list return, and
\* the budget.remaining() of the start log line.
RunStart ==
    /\ run.pc = "idle"
    /\ \E l \in CityLists :
         LET r == Remaining(budget, utc_day)
         IN  IF l = <<>>
             THEN /\ run' = [RunIdle EXCEPT !.pc = "done"]
                  /\ UNCHANGED budget
             ELSE /\ budget' = r.b
                  /\ run' = [RunIdle EXCEPT !.pc = "top", !.cities = l, !.idx = 1,
                                            !.n_start = r.ret]
    /\ UNCHANGED <<utc_day, missing, fetched>>
    /\ BfUnchanged

\* Top of `for city in &cities`: the loop ends after the last city or when the
\* budget is exhausted; both fall to the final log line's budget.used_today().
RunTop ==
    /\ run.pc = "top"
    /\ IF run.idx > Len(run.cities)
       THEN /\ run' = [run EXCEPT !.pc = "done", !.last = "end_of_list"]
            /\ budget' = UsedToday(budget, utc_day).b
       ELSE IF BudgetExhausted(budget, utc_day)
       THEN /\ run' = [run EXCEPT !.pc = "done", !.exhausted = TRUE,
                                  !.last = "budget_exhausted"]
            /\ budget' = UsedToday(Remaining(budget, utc_day).b, utc_day).b
       ELSE /\ run' = [run EXCEPT !.pc = "geocode", !.last = "next_city"]
            /\ budget' = Remaining(budget, utc_day).b
    /\ UNCHANGED <<utc_day, missing, fetched>>
    /\ BfUnchanged

\* Where the run is: the city's index and the days still to fetch for it.
Position == [idx |-> run.idx, days |-> run.days]

\* history_service.geocode(city): on an error the city is skipped.
RunGeocode ==
    /\ run.pc = "geocode"
    /\ \E ok \in BOOLEAN :
         run' = IF ok THEN [run EXCEPT !.pc = "missing", !.last = "geocoded"]
                ELSE [run EXCEPT !.pc = "top", !.idx = @ + 1,
                                 !.last = "geocode_err", !.prev = Position]
    /\ UNCHANGED <<utc_day, budget, missing, fetched>>
    /\ BfUnchanged

\* history_service.get_missing_days(..): an error or an empty list skips the
\* city; otherwise the log line's budget.remaining() and on to the day loop.
RunMissingDays ==
    /\ run.pc = "missing"
    /\ \E ok \in BOOLEAN :
         LET days == GetMissingDays(missing, run.cities[run.idx])
         IN  IF ok /\ days # <<>>
             THEN /\ run' = [run EXCEPT !.pc = "fetch", !.days = days,
                                        !.last = "missing_days"]
                  /\ budget' = Remaining(budget, utc_day).b
             ELSE /\ run' = [run EXCEPT !.pc = "top", !.idx = @ + 1,
                                        !.last = IF ok THEN "fully_cached"
                                                 ELSE "missing_days_err",
                                        !.prev = Position]
                  /\ UNCHANGED budget
    /\ UNCHANGED <<utc_day, missing, fetched>>
    /\ BfUnchanged

\* One pass of `for day_ts in &missing_days`: fetch_day_if_budget, then the
\* 100 ms sleep.  Ok(None) breaks the day loop; an Err is logged and skipped.
\* last, slept and prev keep what the pass met, whether it slept, and the
\* city and days it started from.
RunFetchDay_ErrBreaks ==
    /\ run.pc = "fetch"
    /\ LET c == run.cities[run.idx]
           d == Head(run.days)
           r == FetchDayIfBudget(budget, utc_day)
           rest == Tail(run.days)
       IN  /\ budget' = r.b
           /\ IF ~r.granted
              THEN /\ run' = [run EXCEPT !.pc = "top", !.idx = @ + 1, !.days = <<>>,
                                         !.exhausted = TRUE, !.last = "no_budget",
                                         !.slept = FALSE, !.prev = Position]
                   /\ UNCHANGED <<missing, fetched>>
              ELSE /\ fetched' = [fetched EXCEPT !.today = @ + 1]
                   /\ \E ok \in BOOLEAN :
                        /\ missing' = IF ok THEN [missing EXCEPT ![c] = @ \ {d}]
                                      ELSE missing
                        /\ run' = IF ok
                             THEN [run EXCEPT
                                !.fetches = @ + 1,
                                !.order = Append(@, run.idx),
                                !.days = rest,
                                !.pc = IF rest = <<>> THEN "top" ELSE "fetch",
                                !.idx = IF rest = <<>> THEN @ + 1 ELSE @,
                                !.last = "fetched",
                                !.slept = TRUE, !.prev = Position]
                             ELSE [run EXCEPT
                                !.fetches = @ + 1,
                                !.order = Append(@, run.idx),
                                !.days = <<>>, !.pc = "top", !.idx = @ + 1,
                                !.last = "fetch_err",
                                !.slept = FALSE, !.prev = Position]
    /\ UNCHANGED utc_day
    /\ BfUnchanged

RunFetchDay ==
    /\ run.pc = "fetch"
    /\ LET c == run.cities[run.idx]
           d == Head(run.days)
           r == FetchDayIfBudget(budget, utc_day)
           rest == Tail(run.days)
       IN  /\ budget' = r.b
           /\ IF ~r.granted
              THEN /\ run' = [run EXCEPT !.pc = "top", !.idx = @ + 1, !.days = <<>>,
                                         !.exhausted = TRUE, !.last = "no_budget",
                                         !.slept = FALSE, !.prev = Position]
                   /\ UNCHANGED <<missing, fetched>>
              ELSE /\ fetched' = [fetched EXCEPT !.today = @ + 1]
                   /\ \E ok \in BOOLEAN :
                        /\ missing' = IF ok THEN [missing EXCEPT ![c] = @ \ {d}]
                                      ELSE missing
                        /\ run' = [run EXCEPT
                                !.fetches = @ + 1,
                                !.order = Append(@, run.idx),
                                !.days = rest,
                                !.pc = IF rest = <<>> THEN "top" ELSE "fetch",
                                !.idx = IF rest = <<>> THEN @ + 1 ELSE @,
                                !.last = IF ok THEN "fetched" ELSE "fetch_err",
                                !.slept = TRUE, !.prev = Position]
    /\ UNCHANGED utc_day
    /\ BfUnchanged

\* HistoryService::backfill_data, reached from get_history, get_daily_history
\* and get_trends: one fetch_timemachine per missing day, at most
\* MAX_DAYS_PER_REQUEST of them; failed days are skipped, the rest inserted.
BackfillData(c) ==
    /\ fetched.requests < MaxRequests
    /\ LET days == Take(GetMissingDays(missing, c), MAX_DAYS_PER_REQUEST)
       IN  /\ days # <<>>
           /\ \E got \in SUBSET SeqRange(days) :
                missing' = [missing EXCEPT ![c] = @ \ got]
           /\ fetched' = [fetched EXCEPT !.today = @ + Len(days),
                                         !.requests = @ + 1]
    /\ UNCHANGED <<utc_day, budget, run>>
    /\ BfUnchanged

NextBackfill ==
    \/ BfTick
    \/ RunStart
    \/ RunTop
    \/ RunGeocode
    \/ RunMissingDays
    \/ RunFetchDay
    \/ \E c \in Cities : BackfillData(c)

SpecBackfill == InitBackfill /\ [][NextBackfill]_vars

\* C1: the number of upstream timemachine fetches issued within one UTC day,
\* by scheduled backfill runs and on-demand history/trend requests together,
\* never exceeds the budget's daily limit.
C1_FetchesPerDayWithinLimit == fetched.today <= budget.daily_limit

NonDecreasing(q) == \A i, j \in DOMAIN q : i <= j => q[i] <= q[j]

RunHaltsAtBudget ==
    /\ run.fetches <= run.n_start
    /\ NonDecreasing(run.order)
    /\ (run.fetches >= run.n_start => run.pc \notin {"geocode", "missing"})
    /\ (run.exhausted => run.pc \notin {"geocode", "missing", "fetch"})

C30_ErrorsSkipOnlyTheirUnit ==
    /\ run.last = "fetch_err" =>
          /\ run.slept
          /\ IF Len(run.prev.days) > 1
             THEN /\ run.pc = "fetch"
                  /\ run.idx = run.prev.idx
                  /\ run.days = Tail(run.prev.days)
             ELSE /\ run.pc = "top"
                  /\ run.idx = run.prev.idx + 1
    /\ run.last \in {"geocode_err", "missing_days_err"} =>
          /\ run.pc = "top"
          /\ run.idx = run.prev.idx + 1
          /\ \A i \in DOMAIN run.order : run.order[i] # run.prev.idx
    /\ (run.pc = "done" /\ run.cities # <<>>) =>
          \/ run.last = "end_of_list" /\ run.idx = Len(run.cities) + 1
          \/ run.last = "budget_exhausted"

\* The fetch of a city's first missing day has just failed, the run has slept
\* and stands at the city's second missing day, whose fetch the budget (of
\* the day that has begun meanwhile) will grant.
C30_Witness ==
    /\ run.last = "fetch_err"
    /\ run.slept
    /\ run.pc = "fetch"
    /\ Len(run.prev.days) = 2
    /\ run.days = <<2>>
    /\ RecordCall(budget, utc_day).ret

(***************************************************************************)
(* SpecNotify: NotificationService::send.  The service is built with each  *)
(* backend present or absent; every send is the sequence of steps between  *)
(* the awaits of the code: the ntfy block, the gotify block, the result.   *)
(***************************************************************************)
Backends == {"ntfy", "gotify"}
\* Priority of the message being sent (NotificationMessage.priority).
Priorities == {"min", "low", "default", "high", "urgent"}
\* What a backend's send can return: Ok, or the two errors NtfyClient::send and
\* GotifyClient::send produce (a reqwest error, a non-success status).
BackendErrors == {"SendError", "ServiceError"}
BackendOutcomes == {"Ok"} \cup BackendErrors

OkResult == [kind |-> "Ok", from |-> "none"]
NoServicesConfigured == [kind |-> "NoServicesConfigured", from |-> "none"]
Err(kind, backend) == [kind |-> kind, from |-> backend]

\* is_configured
IsConfigured(svc) == svc.ntfy \/ svc.gotify
\* [self.ntfy.is_some(), self.gotify.is_some()].iter().filter(|&&x| x).count()
ConfiguredCount(svc) == Cardinality({b \in Backends : svc[b]})

\* The tail of send: Ok if fewer errors than configured backends, else the
\* first error, else Ok.
SendResult_AllMustSucceed(errors, svc) ==
    IF errors = <<>> THEN OkResult ELSE Head(errors)
SendResult(errors, svc) ==
    IF Len(errors) < ConfiguredCount(svc) THEN OkResult
    ELSE IF errors # <<>> THEN Head(errors)
    ELSE OkResult

InitNotify ==
    /\ ClockInit
    /\ budget = NewBudget(0, 0)
    /\ bseq = BSeqInit
    /\ callers = IdleCallers
    /\ bconc = BConcInit
    /\ BackfillIdle
    /\ nsvc \in [Backends -> BOOLEAN]
    /\ send = SendIdle
    /\ SchedIdle
    /\ RestIdle

NtUnchanged == UNCHANGED <<utc_day, budget, bseq, callers, bconc, bfVars, scVars, restVars>>

\* send is called: the is_configured check and its early return.
SendCall ==
    /\ send.pc = "idle"
    /\ \E m \in Priorities :
         send' = IF ~IsConfigured(nsvc)
                 THEN [SendIdle EXCEPT !.msg = m, !.result = NoServicesConfigured]
                 ELSE [SendIdle EXCEPT !.msg = m, !.pc = "ntfy"]
    /\ UNCHANGED nsvc
    /\ NtUnchanged

\* One backend's block: `if let Some(ref c) = self.<backend> { c.send(..) }`,
\* pushing the error when the send failed.
BackendBlock(b, next) ==
    IF nsvc[b]
    THEN \E out \in BackendOutcomes :
           send' = [send EXCEPT
                      !.attempts[b] = @ + 1,
                      !.errors = IF out = "Ok" THEN @ ELSE Append(@, Err(out, b)),
                      !.ok = IF out = "Ok" THEN @ \cup {b} ELSE @,
                      !.pc = next]
    ELSE send' = [send EXCEPT !.pc = next]

\* A send that gives up at the first failure (ntfy.send(message).await?).
SendNtfy_Propagate ==
    /\ send.pc = "ntfy"
    /\ IF nsvc.ntfy
       THEN \E out \in BackendOutcomes :
              send' = [send EXCEPT
                         !.attempts.ntfy = @ + 1,
                         !.errors = IF out = "Ok" THEN @ ELSE Append(@, Err(out, "ntfy")),
                         !.ok = IF out = "Ok" THEN @ \cup {"ntfy"} ELSE @,
                         !.pc = IF out = "Ok" THEN "gotify" ELSE "idle",
                         !.result = IF out = "Ok" THEN @ ELSE Err(out, "ntfy")]
       ELSE send' = [send EXCEPT !.pc = "gotify"]
    /\ UNCHANGED nsvc
    /\ NtUnchanged
SendNtfy ==
    /\ send.pc = "ntfy"
    /\ BackendBlock("ntfy", "gotify")
    /\ UNCHANGED nsvc
    /\ NtUnchanged

SendGotify ==
    /\ send.pc = "gotify"
    /\ BackendBlock("gotify", "return")
    /\ UNCHANGED nsvc
    /\ NtUnchanged

SendReturn ==
    /\ send.pc = "return"
    /\ send' = [send EXCEPT !.pc = "idle", !.result = SendResult(send.errors, nsvc)]
    /\ UNCHANGED nsvc
    /\ NtUnchanged

NextNotify == SendCall \/ SendNtfy \/ SendGotify \/ SendReturn

SpecNotify == InitNotify /\ [][NextNotify]_vars

SendReturned == send.pc = "idle" /\ send.result # NoResult

\* C6: send returns NoServicesConfigured when no backend is configured, without
\* attempting any send; otherwise it returns Ok iff at least one configured
\* backend's send succeeded, and an error that is one backend's own error (never
\* NoServicesConfigured) iff every configured backend failed.
C6_SendAggregatesPartialFailure ==
    SendReturned =>
        IF ConfiguredCount(nsvc) = 0
        THEN /\ send.result = NoServicesConfigured
             /\ \A b \in Backends : send.attempts[b] = 0
        ELSE /\ (send.result = OkResult) <=> (send.ok # {})
             /\ (send.ok = {}) <=>
                    /\ send.result \in SeqRange(send.errors)
                    /\ send.result.kind \in BackendErrors
             /\ send.result # NoServicesConfigured

C6_Witness ==
    /\ SendReturned
    /\ nsvc.ntfy /\ nsvc.gotify
    /\ send.ok = {"gotify"}
    /\ Len(send.errors) = 1
    /\ send.result = OkResult

\* C7: in every send with at least one backend configured, each configured
\* backend is attempted exactly once whatever the outcome of the other (an
\* unconfigured one never): a failed ntfy send does not stop the gotify send.
C7_EveryConfiguredBackendAttemptedOnce ==
    (SendReturned /\ IsConfigured(nsvc)) =>
        \A b \in Backends : send.attempts[b] = (IF nsvc[b] THEN 1 ELSE 0)

C7_Witness ==
    /\ SendReturned
    /\ nsvc.ntfy /\ nsvc.gotify
    /\ \E i \in DOMAIN send.errors : send.errors[i].from = "ntfy"
    /\ send.attempts.gotify = 1
    /\ send.attempts.ntfy = 1

(***************************************************************************)
(* SpecSched: the SchedulerService over its JobStorage and the cron        *)
(* engine, called sequentially: init, create_job, update_job, delete_job,  *)
(* and a process restart (the file survives, everything else is rebuilt).  *)
(* The operations take the outcome of their file save and engine calls as  *)
(* inputs.  Under this specification init's scheduler.add can fail for any *)
(* job, and the saves and engine calls of the other operations succeed.    *)
(***************************************************************************)

JobIds == {"j1", "j2"}
\* cron.parse / timezone.parse::<chrono_tz::Tz>() succeed on these.
ValidCrons == {"0 30 5 * * *", "0 0 7 * * *"}
ValidTimezones == {"UTC", "America/Chicago"}
ValidCron(c) == c \in ValidCrons
ValidTimezone(z) == z \in ValidTimezones

\* The schedule settings callers pass: two valid ones that differ in cron,
\* timezone and notify policy, and the three ways of being invalid.
Settings ==
    {[cron |-> "0 30 5 * * *", timezone |-> "UTC", notify |-> TRUE],
     [cron |-> "0 0 7 * * *", timezone |-> "America/Chicago", notify |-> FALSE],
     [cron |-> "not-a-cron", timezone |-> "UTC", notify |-> TRUE],
     [cron |-> "0 30 5 * * *", timezone |-> "Mars/Olympus", notify |-> TRUE],
     [cron |-> "not-a-cron", timezone |-> "Mars/Olympus", notify |-> FALSE]}

\* ForecastJob: id, cron, timezone, enabled, notify (NotifyConfig.on_run); the
\* other fields are carried like notify.
Jobs ==
    {[id |-> i, cron |-> x.cron, timezone |-> x.timezone, enabled |-> e,
      notify |-> x.notify] : i \in JobIds, x \in Settings, e \in BOOLEAN}

\* The handles the cron engine hands out (Uuid values); with all of them in
\* use scheduler.add fails.
Uuids == {"u1", "u2"}

MapPut(m, k, v) == [x \in DOMAIN m \cup {k} |-> IF x = k THEN v ELSE m[x]]
MapDel(m, k) == [x \in DOMAIN m \ {k} |-> m[x]]
MapRange(m) == {m[x] : x \in DOMAIN m}

\* The service's state, as the operations below read and return it.
Svc == [storage |-> storage, file |-> file, job_uuids |-> job_uuids,
        scheduler |-> scheduler]
Ret(st, res) == [st |-> st, res |-> res, removed |-> FALSE]

\* A handle the engine has not handed out (Uuid::new_v4 in the engine).
FreeUuids(st) == Uuids \ (DOMAIN st.scheduler \cup MapRange(st.job_uuids))
NewUuid(st) == CHOOSE u \in FreeUuids(st) : TRUE

\* JobStorage::upsert: insert into the map, then save(); the map keeps the job
\* when the save fails.
Upsert(st, job, saveOk) ==
    LET jobs == MapPut(st.storage, job.id, job)
    IN  IF saveOk
        THEN Ret([st EXCEPT !.storage = jobs, !.file = jobs], "Ok")
        ELSE Ret([st EXCEPT !.storage = jobs], "Storage")

\* JobStorage::remove: remove from the map, save() only if it existed.
Remove(st, id, saveOk) ==
    LET existed == id \in DOMAIN st.storage
        jobs == MapDel(st.storage, id)
    IN  IF ~existed THEN [Ret(st, "Ok") EXCEPT !.removed = FALSE]
        ELSE IF saveOk
        THEN [Ret([st EXCEPT !.storage = jobs, !.file = jobs], "Ok")
                EXCEPT !.removed = TRUE]
        ELSE Ret([st EXCEPT !.storage = jobs], "Storage")

\* schedule_job: parse the timezone, build the cron job (parsing the cron),
\* scheduler.add, then job_uuids.insert(job_id, uuid).
ScheduleJob(st, job, addOk) ==
    IF ~ValidTimezone(job.timezone) THEN Ret(st, "InvalidTimezone")
    ELSE IF ~ValidCron(job.cron) THEN Ret(st, "InvalidCron")
    ELSE IF ~addOk \/ FreeUuids(st) = {} THEN Ret(st, "Scheduler")
    ELSE LET u == NewUuid(st)
             reg == [id |-> job.id, cron |-> job.cron, timezone |-> job.timezone,
                     notify |-> job.notify]
         IN  Ret([st EXCEPT !.scheduler = MapPut(@, u, reg),
                            !.job_uuids = MapPut(@, job.id, u)], "Ok")

\* unschedule_job: look the handle up; if there is one, scheduler.remove and
\* then job_uuids.remove; no handle is Ok.
UnscheduleJob(st, id, rmOk) ==
    IF id \notin DOMAIN st.job_uuids THEN Ret(st, "Ok")
    ELSE IF ~rmOk THEN Ret(st, "Scheduler")
    ELSE Ret([st EXCEPT !.scheduler = MapDel(@, st.job_uuids[id]),
                        !.job_uuids = MapDel(@, id)], "Ok")

\* create_job: validate cron, validate timezone, upsert, schedule if enabled.
CreateJob_SaveBeforeTimezoneCheck(st, job, saveOk, addOk) ==
    IF ~ValidCron(job.cron) THEN Ret(st, "InvalidCron")
    ELSE LET up == Upsert(st, job, saveOk)
         IN  IF up.res # "Ok" THEN up
             ELSE IF ~ValidTimezone(job.timezone) THEN Ret(up.st, "InvalidTimezone")
             ELSE IF job.enabled THEN ScheduleJob(up.st, job, addOk)
             ELSE up
CreateJob(st, job, saveOk, addOk) ==
    IF ~ValidCron(job.cron) THEN Ret(st, "InvalidCron")
    ELSE IF ~ValidTimezone(job.timezone) THEN Ret(st, "InvalidTimezone")
    ELSE LET up == Upsert(st, job, saveOk)
         IN  IF up.res # "Ok" THEN up
             ELSE IF job.enabled THEN ScheduleJob(up.st, job, addOk)
             ELSE up

\* update_job: exists, validate cron, validate timezone, unschedule the old
\* job, upsert, schedule if enabled.
UpdateJob_UnscheduleFirst(st, job, rmOk, saveOk, addOk) ==
    IF job.id \notin DOMAIN st.storage THEN Ret(st, "NotFound")
    ELSE LET un == UnscheduleJob(st, job.id, rmOk)
         IN  IF un.res # "Ok" THEN un
             ELSE IF ~ValidCron(job.cron) THEN Ret(un.st, "InvalidCron")
             ELSE IF ~ValidTimezone(job.timezone) THEN Ret(un.st, "InvalidTimezone")
             ELSE LET up == Upsert(un.st, job, saveOk)
                  IN  IF up.res # "Ok" THEN up
                      ELSE IF job.enabled THEN ScheduleJob(up.st, job, addOk)
                      ELSE up
UpdateJob(st, job, rmOk, saveOk, addOk) ==
    IF job.id \notin DOMAIN st.storage THEN Ret(st, "NotFound")
    ELSE IF ~ValidCron(job.cron) THEN Ret(st, "InvalidCron")
    ELSE IF ~ValidTimezone(job.timezone) THEN Ret(st, "InvalidTimezone")
    ELSE LET un == UnscheduleJob(st, job.id, rmOk)
         IN  IF un.res # "Ok" THEN un
             ELSE LET up == Upsert(un.st, job, saveOk)
                  IN  IF up.res # "Ok" THEN up
                      ELSE IF job.enabled THEN ScheduleJob(up.st, job, addOk)
                      ELSE up

\* delete_job: unschedule, then storage.remove; Ok(removed).
DeleteJob(st, id, rmOk, saveOk) ==
    LET un == UnscheduleJob(st, id, rmOk)
    IN  IF un.res # "Ok" THEN un ELSE Remove(un.st, id, saveOk)

\* init: storage.load, then schedule_job for every enabled stored job; a job
\* that fails to schedule is logged and skipped.  addOk is the set of job ids
\* whose scheduler.add succeeds.
RECURSIVE ScheduleAll(_, _, _)
ScheduleAll(st, ids, addOk) ==
    IF ids = {} THEN st
    ELSE LET i == CHOOSE x \in ids : TRUE
         IN  ScheduleAll(ScheduleJob(st, st.storage[i], i \in addOk).st,
                         ids \ {i}, addOk)

InitService(st, loadOk, addOk) ==
    IF ~loadOk THEN Ret(st, "Storage")
    ELSE LET loaded == [st EXCEPT !.storage = IF st.file = <<>> THEN @ ELSE st.file]
             enabled == {i \in DOMAIN loaded.storage : loaded.storage[i].enabled}
         IN  Ret(ScheduleAll(loaded, enabled, addOk), "Ok")

InitSched ==
    /\ ClockInit
    /\ budget = NewBudget(0, 0)
    /\ bseq = BSeqInit
    /\ callers = IdleCallers
    /\ bconc = BConcInit
    /\ BackfillIdle
    /\ NotifyIdle
    /\ SchedIdle
    /\ RestIdle

\* The errors a job's fields call for, and the one for an id not stored.
CronErrors(job) == IF ValidCron(job.cron) THEN {} ELSE {"InvalidCron"}
TimezoneErrors(job) == IF ValidTimezone(job.timezone) THEN {} ELSE {"InvalidTimezone"}
NotFoundErrors(job) == IF job.id \in DOMAIN storage THEN {} ELSE {"NotFound"}

ScUnchanged == UNCHANGED <<utc_day, budget, bseq, callers, bconc, bfVars, ntVars, restVars>>

\* The state a call returns and what it returned become the service's state.
\* A failed init leaves the service to be initialised again.
\* errors: the errors the call's argument calls for; changed: whether the call
\* changed the records, the file, the handles or the registrations; existed and
\* had_handle: whether the id had a record and a handle before the call.
Returns(r, op, id, errors) ==
    /\ storage' = r.st.storage
    /\ file' = r.st.file
    /\ job_uuids' = r.st.job_uuids
    /\ scheduler' = r.st.scheduler
    /\ sched' = [sched EXCEPT !.phase = IF op = "init" /\ r.res # "Ok"
                                        THEN "new" ELSE "running",
                              !.op = op, !.id = id,
                              !.result = r.res, !.removed = r.removed,
                              !.all_ok = @ /\ r.res = "Ok",
                              !.errors = errors, !.changed = (r.st # Svc),
                              !.existed = (id \in DOMAIN storage),
                              !.had_handle = (id \in DOMAIN job_uuids)]
    /\ ScUnchanged

SchedInit ==
    /\ sched.phase = "new"
    /\ \E loadOk \in BOOLEAN : \E addOk \in SUBSET JobIds :
         \E r \in {InitService(Svc, loadOk, addOk)} : Returns(r, "init", "none", {})

create_job(job) ==
    /\ sched.phase = "running"
    /\ \E r \in {CreateJob(Svc, job, TRUE, TRUE)} :
         Returns(r, "create_job", job.id, CronErrors(job) \cup TimezoneErrors(job))

update_job(job) ==
    /\ sched.phase = "running"
    /\ \E r \in {UpdateJob(Svc, job, TRUE, TRUE, TRUE)} :
         Returns(r, "update_job", job.id,
                 NotFoundErrors(job) \cup CronErrors(job) \cup TimezoneErrors(job))

delete_job(id) ==
    /\ sched.phase = "running"
    /\ \E r \in {DeleteJob(Svc, id, TRUE, TRUE)} : Returns(r, "delete_job", id, {})

\* The process stops and starts again: SchedulerService::new over the same file.
Restart ==
    /\ sched.phase = "running"
    /\ storage' = <<>>
    /\ job_uuids' = <<>>
    /\ scheduler' = <<>>
    /\ sched' = SchedObsInit
    /\ UNCHANGED file
    /\ ScUnchanged

NextSched ==
    \/ SchedInit
    \/ \E j \in Jobs : create_job(j)
    \/ \E j \in Jobs : update_job(j)
    \/ \E i \in JobIds : delete_job(i)
    \/ Restart

SpecSched == InitSched /\ [][NextSched]_vars

\* No record and no registration carries a cron or timezone that fails to parse.
NothingInvalidKept ==
    /\ \A i \in DOMAIN storage :
         ValidCron(storage[i].cron) /\ ValidTimezone(storage[i].timezone)
    /\ \A i \in DOMAIN file :
         ValidCron(file[i].cron) /\ ValidTimezone(file[i].timezone)
    /\ \A u \in DOMAIN scheduler :
         ValidCron(scheduler[u].cron) /\ ValidTimezone(scheduler[u].timezone)

\* C8: create_job with a cron that does not parse returns InvalidCron and with
\* a timezone that does not parse returns InvalidTimezone; the call stores and
\* schedules nothing (records, file, handles and registrations are as before),
\* and no state holds a record or registration with such a field.
C8_CreateRejectsInvalidCronOrTimezone ==
    /\ (sched.op = "create_job" /\ sched.errors # {})
       => (sched.result \in sched.errors /\ ~sched.changed)
    /\ NothingInvalidKept

\* create_job has just rejected a bad timezone for an id that is neither stored
\* nor scheduled, while another job is stored and scheduled.
C8_Witness ==
    /\ sched.op = "create_job"
    /\ sched.result = "InvalidTimezone"
    /\ sched.id \notin DOMAIN storage
    /\ sched.id \notin DOMAIN job_uuids
    /\ DOMAIN job_uuids # {}

\* C9: update_job with an invalid cron or timezone, or for an id that is not
\* stored, returns InvalidCron / InvalidTimezone / NotFound and changes
\* nothing: the stored record, the file, the handle and the registration with
\* its cron, timezone and notify policy are as before the call.
C9_UpdateRejectsEntirely ==
    (sched.op = "update_job" /\ sched.errors # {})
    => (sched.result \in sched.errors /\ ~sched.changed)

\* update_job has just rejected a bad cron for a job that is stored enabled and
\* is still registered under its handle with the stored cron, timezone, notify.
C9_Witness ==
    /\ sched.op = "update_job"
    /\ sched.result = "InvalidCron"
    /\ sched.id \in DOMAIN storage
    /\ storage[sched.id].enabled
    /\ sched.id \in DOMAIN job_uuids
    /\ job_uuids[sched.id] \in DOMAIN scheduler
    /\ scheduler[job_uuids[sched.id]] =
         [id |-> sched.id, cron |-> storage[sched.id].cron,
          timezone |-> storage[sched.id].timezone,
          notify |-> storage[sched.id].notify]

\* C10: after init and any sequence of calls that each returned Ok, a job id
\* has a handle in job_uuids exactly when its stored job is enabled.
C10_HandleIffStoredEnabled ==
    (sched.phase = "running" /\ sched.all_ok)
    => \A i \in JobIds :
         (i \in DOMAIN job_uuids) <=> (i \in DOMAIN storage /\ storage[i].enabled)

\* What delete_job promises about the records and the job-id to handle map.
DeleteLeavesNoRecordNoMapEntry ==
    sched.op = "delete_job" =>
        /\ sched.result = "Ok"
        /\ sched.removed <=> sched.existed
        /\ (~sched.existed /\ ~sched.had_handle) => ~sched.changed
        /\ sched.id \notin DOMAIN storage
        /\ sched.id \notin DOMAIN job_uuids
        /\ DeleteJob(Svc, sched.id, TRUE, TRUE)
              = [st |-> Svc, res |-> "Ok", removed |-> FALSE]

ConcIds == {"j1"}
ConcJobs ==
    {j \in Jobs : j.id \in ConcIds /\ ValidCron(j.cron) /\ ValidTimezone(j.timezone)}

\* What the cron engine holds for a job: its id, cron, timezone, notify policy.
Registration(job) ==
    [id |-> job.id, cron |-> job.cron, timezone |-> job.timezone,
     notify |-> job.notify]

\* Handles no caller holds and the engine has not handed out.
ConcFreeUuids ==
    Uuids \ (DOMAIN scheduler \cup MapRange(job_uuids)
             \cup {ops[c].uuid : c \in SvcCallers})

InitSchedConc ==
    /\ ClockInit
    /\ budget = NewBudget(0, 0)
    /\ bseq = BSeqInit
    /\ callers = IdleCallers
    /\ bconc = BConcInit
    /\ BackfillIdle
    /\ NotifyIdle
    /\ SchedIdle
    /\ RestIdle

CnUnchanged ==
    UNCHANGED <<utc_day, budget, bseq, callers, bconc, bfVars, ntVars, jsVars,
                chVars, hrVars, build, tkVars, pureVars>>

\* sched notes a delete_job(id) by caller c that started with no create_job
\* for the id in flight ("deleting") and that it returned Ok(true)
\* ("delete_job"); a create_job call clears the note.
CreateInFlight(id) ==
    \E c \in SvcCallers : ops[c].op = "create_job" /\ ops[c].job.id = id
DeletingObs(c, id) ==
    [SchedObsInit EXCEPT !.phase = c, !.op = "deleting", !.id = id]
DeletedObs(id) ==
    [SchedObsInit EXCEPT !.op = "delete_job", !.id = id, !.result = "Ok",
                         !.removed = TRUE]

\* The caller moves to pc, keeping its call.
Goto(c, pc) == ops' = [ops EXCEPT ![c].pc = pc]
\* The call returns.
Return(c) == ops' = [ops EXCEPT ![c] = OpIdle]

\* create_job(job): cron and timezone parse, so the call goes on to upsert.
CallCreate(c, job) ==
    /\ ops[c].pc = "idle"
    /\ ops' = [ops EXCEPT ![c] = [pc |-> "insert", op |-> "create_job",
                                   job |-> job, uuid |-> "none"]]
    /\ sched' = SchedObsInit
    /\ UNCHANGED <<storage, file, job_uuids, scheduler>>
    /\ CnUnchanged

\* update_job(job): storage.exists, then the validation, which passes.
CallUpdate(c, job) ==
    /\ ops[c].pc = "idle"
    /\ IF job.id \in DOMAIN storage
       THEN ops' = [ops EXCEPT ![c] = [pc |-> "uns_read", op |-> "update_job",
                                       job |-> job, uuid |-> "none"]]
       ELSE UNCHANGED ops
    /\ UNCHANGED <<storage, file, job_uuids, scheduler>>
    /\ UNCHANGED sched
    /\ CnUnchanged

\* delete_job(id): starts with unschedule_job.
CallDelete(c, id) ==
    /\ ops[c].pc = "idle"
    /\ ops' = [ops EXCEPT ![c] = [pc |-> "uns_read", op |-> "delete_job",
                                   job |-> [NoJob EXCEPT !.id = id],
                                   uuid |-> "none"]]
    /\ sched' = IF sched.op = "delete_job" THEN sched
                ELSE IF CreateInFlight(id) THEN SchedObsInit
                ELSE DeletingObs(c, id)
    /\ UNCHANGED <<storage, file, job_uuids, scheduler>>
    /\ CnUnchanged

\* Where a call goes after unschedule_job.
AfterUnschedule(c) == IF ops[c].op = "delete_job" THEN "remove" ELSE "insert"

\* unschedule_job: job_uuids.read().get(job_id).copied()
UnsRead(c) ==
    /\ ops[c].pc = "uns_read"
    /\ IF ops[c].job.id \in DOMAIN job_uuids
       THEN ops' = [ops EXCEPT ![c].pc = "uns_remove",
                               ![c].uuid = job_uuids[ops[c].job.id]]
       ELSE Goto(c, AfterUnschedule(c))
    /\ UNCHANGED <<storage, file, job_uuids, scheduler>>
    /\ UNCHANGED sched
    /\ CnUnchanged

\* unschedule_job: scheduler.remove(&uuid).  For a handle the engine no longer
\* holds the engine's answer is either Ok or an error.
UnsRemove(c) ==
    /\ ops[c].pc = "uns_remove"
    /\ \/ /\ scheduler' = MapDel(scheduler, ops[c].uuid)
          /\ Goto(c, "uns_map")
       \/ /\ ops[c].uuid \notin DOMAIN scheduler
          /\ UNCHANGED scheduler
          /\ Return(c)
    /\ UNCHANGED <<storage, file, job_uuids>>
    /\ UNCHANGED sched
    /\ CnUnchanged

\* unschedule_job: job_uuids.write().remove(job_id)
UnsMapRemove(c) ==
    /\ ops[c].pc = "uns_map"
    /\ job_uuids' = MapDel(job_uuids, ops[c].job.id)
    /\ ops' = [ops EXCEPT ![c].pc = AfterUnschedule(c), ![c].uuid = "none"]
    /\ UNCHANGED <<storage, file, scheduler>>
    /\ UNCHANGED sched
    /\ CnUnchanged

\* JobStorage::upsert: jobs.write().insert(id, job)
StInsert(c) ==
    /\ ops[c].pc = "insert"
    /\ storage' = MapPut(storage, ops[c].job.id, ops[c].job)
    /\ Goto(c, "save")
    /\ UNCHANGED <<file, job_uuids, scheduler>>
    /\ UNCHANGED sched
    /\ CnUnchanged

\* JobStorage::remove: jobs.write().remove(id); save only if it existed.
StRemove(c) ==
    /\ ops[c].pc = "remove"
    /\ storage' = MapDel(storage, ops[c].job.id)
    /\ IF ops[c].job.id \in DOMAIN storage THEN Goto(c, "save") ELSE Return(c)
    /\ UNCHANGED <<file, job_uuids, scheduler>>
    /\ UNCHANGED sched
    /\ CnUnchanged

\* JobStorage::save, then back in create_job / update_job: schedule if enabled.
StSave(c) ==
    /\ ops[c].pc = "save"
    /\ file' = storage
    /\ IF ops[c].op # "delete_job" /\ ops[c].job.enabled
       THEN Goto(c, "add") ELSE Return(c)
    /\ sched' = IF /\ ops[c].op = "delete_job"
                   /\ sched.op = "deleting"
                   /\ sched.phase = c
                THEN DeletedObs(ops[c].job.id) ELSE sched
    /\ UNCHANGED <<storage, job_uuids, scheduler>>
    /\ CnUnchanged

\* schedule_job: scheduler.add(cron_job) returns the new handle.
EngineAdd(c) ==
    /\ ops[c].pc = "add"
    /\ IF ConcFreeUuids = {}
       THEN /\ Return(c)
            /\ UNCHANGED scheduler
       ELSE LET u == CHOOSE x \in ConcFreeUuids : TRUE
            IN  /\ scheduler' = MapPut(scheduler, u, Registration(ops[c].job))
                /\ ops' = [ops EXCEPT ![c].pc = "map_insert", ![c].uuid = u]
    /\ UNCHANGED <<storage, file, job_uuids>>
    /\ UNCHANGED sched
    /\ CnUnchanged

\* schedule_job: job_uuids.write().insert(job_id, uuid)
MapInsert(c) ==
    /\ ops[c].pc = "map_insert"
    /\ job_uuids' = MapPut(job_uuids, ops[c].job.id, ops[c].uuid)
    /\ Return(c)
    /\ UNCHANGED <<storage, file, scheduler>>
    /\ UNCHANGED sched
    /\ CnUnchanged

NextSchedConc ==
    \E c \in SvcCallers :
        \/ \E j \in ConcJobs : CallCreate(c, j)
        \/ \E j \in ConcJobs : CallUpdate(c, j)
        \/ \E i \in ConcIds : CallDelete(c, i)
        \/ UnsRead(c)
        \/ UnsRemove(c)
        \/ UnsMapRemove(c)
        \/ StInsert(c)
        \/ StRemove(c)
        \/ StSave(c)
        \/ EngineAdd(c)
        \/ MapInsert(c)

SpecSchedConc == InitSchedConc /\ [][NextSchedConc]_vars

Quiescent == \A c \in SvcCallers : ops[c].pc = "idle"

\* C11: whenever no call is in flight, the cron engine holds at most one
\* registration per job id, and every registration it holds is the one the
\* job_uuids map records for its job id.
C11_OneRegistrationPerJobId ==
    Quiescent =>
        /\ \A u, v \in DOMAIN scheduler :
             scheduler[u].id = scheduler[v].id => u = v
        /\ \A u \in DOMAIN scheduler :
             /\ scheduler[u].id \in DOMAIN job_uuids
             /\ job_uuids[scheduler[u].id] = u

\* C28: update_job never creates a record. Once a delete_job(id) has
\* returned true, no create_job for the id running during it or after it,
\* get_job(id) is None and the id has neither handle nor registration, also
\* when an update_job(id) that passed its existence check is still running.
C28_UpdateNeverCreatesRecord ==
    (sched.op = "delete_job" /\ sched.removed) =>
        /\ sched.id \notin DOMAIN storage
        /\ sched.id \notin DOMAIN job_uuids
        /\ \A u \in DOMAIN scheduler : scheduler[u].id # sched.id

\* The records alone: after such a delete the id has no record.
DeletedStaysDeleted ==
    (sched.op = "delete_job" /\ sched.removed) => sched.id \notin DOMAIN storage

(***************************************************************************)
(* SpecStorage: the JobStorage used by two callers at once, each upserting *)
(* and removing the job of its own id, and restarts of the process.  The   *)
(* jobs map sits behind an RwLock: an insert or remove needs the write     *)
(* guard, save holds a read guard from serialising until the file is       *)
(* written.  The file holds what serde_json writes for the map.            *)
(***************************************************************************)
StIdOf == [a |-> "j1", b |-> "j2"]
Names == {"Morning", "Evening"}
\* notify.heat_threshold: Option<f64>: None, a finite value, an infinite one.
Thresholds == {"None", "35.0", "inf"}
StJobs == [id : JobIds, name : Names, heat_threshold : Thresholds]

\* The argument of remove(id), in the shape of a job.
IdOnly(i) == [id |-> i, name |-> "none", heat_threshold |-> "None"]

\* serde_json::to_string_pretty: None and the non-finite floats are written as
\* null, a finite float as its digits.
ToJson(job) ==
    [job EXCEPT !.heat_threshold = IF @ \in {"None", "inf"} THEN "null" ELSE @]
\* serde_json::from_str: null is read as None.
FromJson(rec) ==
    [rec EXCEPT !.heat_threshold = IF @ = "null" THEN "None" ELSE @]
Serialize(jobs) == [i \in DOMAIN jobs |-> ToJson(jobs[i])]
Deserialize(content) == [i \in DOMAIN content |-> FromJson(content[i])]

\* JobStorage::load on a new JobStorage: an absent file leaves the map empty.
Load(f) == IF f = <<>> THEN <<>> ELSE Deserialize(f)

InitStorage ==
    /\ ClockInit
    /\ budget = NewBudget(0, 0)
    /\ bseq = BSeqInit
    /\ callers = IdleCallers
    /\ bconc = BConcInit
    /\ BackfillIdle
    /\ NotifyIdle
    /\ SchedIdle
    /\ RestIdle

JsUnchanged ==
    UNCHANGED <<utc_day, budget, bseq, callers, bconc, bfVars, ntVars,
                job_uuids, scheduler, sched, ops, chVars, hrVars, build, tkVars, pureVars>>

\* upsert(job) / remove(id) is called; what was acknowledged for the id no
\* longer stands once a later call for it is made.
StCall(c, op, job) ==
    /\ sops[c].pc = "idle"
    /\ job.id = StIdOf[c]
    /\ sops' = [sops EXCEPT ![c] = [pc |-> op, op |-> op, job |-> job,
                                     content |-> <<>>]]
    /\ acked' = MapDel(acked, job.id)
    /\ UNCHANGED <<storage, file, rlock>>
    /\ JsUnchanged

\* upsert: { jobs.write().insert(id, job) }
JsInsert(c) ==
    /\ sops[c].pc = "upsert"
    /\ rlock = {}
    /\ storage' = MapPut(storage, sops[c].job.id, sops[c].job)
    /\ sops' = [sops EXCEPT ![c].pc = "save"]
    /\ UNCHANGED <<file, rlock, acked>>
    /\ JsUnchanged

\* remove: { jobs.write().remove(id).is_some() }, save only if it existed
JsRemove(c) ==
    /\ sops[c].pc = "remove"
    /\ rlock = {}
    /\ storage' = MapDel(storage, sops[c].job.id)
    /\ sops' = [sops EXCEPT ![c] = IF sops[c].job.id \in DOMAIN storage
                                    THEN [@ EXCEPT !.pc = "save"] ELSE StOpIdle]
    /\ UNCHANGED <<file, rlock, acked>>
    /\ JsUnchanged

\* save: jobs.read() and to_string_pretty(&*jobs); the guard stays held.
JsSaveSerialize(c) ==
    /\ sops[c].pc = "save"
    /\ rlock' = rlock \cup {c}
    /\ sops' = [sops EXCEPT ![c].pc = "write", ![c].content = Serialize(storage)]
    /\ UNCHANGED <<storage, file, acked>>
    /\ JsUnchanged

\* save: tokio::fs::write succeeds or fails, the guard is dropped, the call
\* returns; an upsert that returns Ok is acknowledged.
JsSaveWrite(c, ok) ==
    /\ sops[c].pc = "write"
    /\ c \in rlock
    /\ file' = IF ok THEN sops[c].content ELSE file
    /\ rlock' = rlock \ {c}
    /\ acked' = IF ok /\ sops[c].op = "upsert"
                THEN MapPut(acked, sops[c].job.id, sops[c].job) ELSE acked
    /\ sops' = [sops EXCEPT ![c] = StOpIdle]
    /\ UNCHANGED storage
    /\ JsUnchanged

\* The process restarts: calls in flight are gone, a new JobStorage loads the
\* file.
JsRestart ==
    /\ storage' = Load(file)
    /\ sops' = [c \in StCallers |-> StOpIdle]
    /\ rlock' = {}
    /\ UNCHANGED <<file, acked>>
    /\ JsUnchanged

NextStorage ==
    \/ \E c \in StCallers : \E j \in StJobs : StCall(c, "upsert", j)
    \/ \E c \in StCallers : \E i \in JobIds : StCall(c, "remove", IdOnly(i))
    \/ \E c \in StCallers : JsInsert(c)
    \/ \E c \in StCallers : JsRemove(c)
    \/ \E c \in StCallers : JsSaveSerialize(c)
    \/ \E c \in StCallers : \E ok \in BOOLEAN : JsSaveWrite(c, ok)
    \/ JsRestart

SpecStorage == InitStorage /\ [][NextStorage]_vars

\* C12: once upsert(job) has returned Ok and no later upsert or remove of that
\* id has been made, get(job.id) returns exactly job, and so does a JobStorage
\* freshly loaded from the file, whatever the calls for other ids do.
C12_UpsertVisibleAndDurable ==
    \A i \in DOMAIN acked :
        /\ i \in DOMAIN storage /\ storage[i] = acked[i]
        /\ i \in DOMAIN Load(file) /\ Load(file)[i] = acked[i]

(***************************************************************************)
(* SpecCache: a TtlCache (src/cache.rs) used by one caller while the       *)
(* monotonic clock advances: insert, get, cleanup, len.                    *)
(***************************************************************************)
MaxInstant == 3        \* the clock runs over 0..MaxInstant
MaxTtl == 2            \* TtlCache::new(ttl) with ttl in 0..MaxTtl

Keys == {"austin", "boston"}
Values == {"loc1", "loc2"}
Miss == "miss"

\* TtlCache::new
NewCache(ttl) == [data |-> <<>>, ttl |-> ttl]

\* TtlCache::insert: the entry expires at Instant::now() + ttl.
CacheInsert(c, k, v, t) ==
    [c EXCEPT !.data = MapPut(@, k, [value |-> v, expires_at |-> t + c.ttl])]

\* TtlCache::get: the value if the entry's expiry is later than now; an
\* expired entry is removed.
CacheGet_KeepExpired(c, k, t) ==
    IF k \in DOMAIN c.data /\ c.data[k].expires_at > t
    THEN [c |-> c, ret |-> c.data[k].value]
    ELSE [c |-> c, ret |-> Miss]
CacheGet(c, k, t) ==
    IF k \notin DOMAIN c.data THEN [c |-> c, ret |-> Miss]
    ELSE IF c.data[k].expires_at > t THEN [c |-> c, ret |-> c.data[k].value]
    ELSE [c |-> [c EXCEPT !.data = MapDel(@, k)], ret |-> Miss]

\* TtlCache::cleanup: retain the entries whose expiry is later than now.
CacheCleanup_KeepEqual(c, t) ==
    [c EXCEPT !.data = [k \in {x \in DOMAIN @ : @[x].expires_at >= t} |-> @[k]]]
CacheCleanup(c, t) ==
    [c EXCEPT !.data = [k \in {x \in DOMAIN @ : @[x].expires_at > t} |-> @[k]]]

\* TtlCache::len counts every entry, expired ones included.
CacheLen(c) == Cardinality(DOMAIN c.data)

InitCache ==
    /\ ClockInit
    /\ budget = NewBudget(0, 0)
    /\ bseq = BSeqInit
    /\ callers = IdleCallers
    /\ bconc = BConcInit
    /\ BackfillIdle
    /\ NotifyIdle
    /\ SchedIdle
    /\ OpsIdle
    /\ StorageIdle
    /\ RepoIdle
    /\ build = BuildIdle
    /\ TickIdle
    /\ PureIdle
    /\ \E ttl \in 0..MaxTtl : cache = NewCache(ttl)
    /\ now = 0
    /\ cobs = CObsInit

ChUnchanged ==
    UNCHANGED <<utc_day, budget, bseq, callers, bconc, bfVars, ntVars, scVars,
                ops, jsVars, hrVars, build, tkVars, pureVars>>

\* Time passes.
ChTick ==
    /\ now < MaxInstant
    /\ now' = now + 1
    /\ UNCHANGED <<cache, cobs>>
    /\ ChUnchanged

\* What the observer keeps of a call.
Observed(op, k, ret) ==
    [op |-> op, key |-> k, ret |-> ret, before |-> cache.data, at |-> now,
     last_insert |-> NoInsert]

ChInsert(k, v) ==
    /\ cache' = CacheInsert(cache, k, v, now)
    /\ cobs' = [Observed("insert", k, "none") EXCEPT
                  !.last_insert = [key |-> k, value |-> v, at |-> now]]
    /\ UNCHANGED now
    /\ ChUnchanged

ChGet(k) ==
    /\ \E r \in {CacheGet(cache, k, now)} :
          /\ cache' = r.c
          /\ cobs' = [Observed("get", k, r.ret) EXCEPT
                        !.last_insert = IF cobs.op = "insert" THEN cobs.last_insert
                                        ELSE NoInsert]
    /\ UNCHANGED now
    /\ ChUnchanged

ChCleanup ==
    /\ cache' = CacheCleanup(cache, now)
    /\ cobs' = Observed("cleanup", "none", "none")
    /\ UNCHANGED now
    /\ ChUnchanged

NextCache ==
    \/ ChTick
    \/ \E k \in Keys : \E v \in Values : ChInsert(k, v)
    \/ \E k \in Keys : ChGet(k)
    \/ ChCleanup

SpecCache == InitCache /\ [][NextCache]_vars

\* The entry of k in data d is there and expires strictly later than instant t.
Unexpired(d, k, t) == k \in DOMAIN d /\ d[k].expires_at > t

C14_CleanupRemovesExactlyExpired ==
    cobs.op = "cleanup" =>
        /\ DOMAIN cache.data = {k \in DOMAIN cobs.before : Unexpired(cobs.before, k, cobs.at)}
        /\ \A k \in DOMAIN cache.data : cache.data[k] = cobs.before[k]
        /\ \A k \in DOMAIN cobs.before :
              CacheGet(cache, k, cobs.at).ret =
                  CacheGet([cache EXCEPT !.data = cobs.before], k, cobs.at).ret

\* cleanup has just removed one expired entry and kept one unexpired entry.
C14_Witness ==
    /\ cobs.op = "cleanup"
    /\ Cardinality(DOMAIN cobs.before) = 2
    /\ CacheLen(cache) = 1
    /\ \E k \in DOMAIN cobs.before : cobs.before[k].expires_at = cobs.at

(***************************************************************************)
(* SpecCacheConc: the same TtlCache shared by request handlers that run    *)
(* concurrently.  Each DashMap call (get, insert, remove) is atomic on its *)
(* own; TtlCache::get is two of them: the lookup with the expiry check     *)
(* under the entry's guard (cache.rs lines 31-32), then, the guard         *)
(* dropped, the removal by key (lines 35-36).  ops holds each handler's    *)
(* position in get: "idle", or "remove" with the key it found expired.     *)
(***************************************************************************)
CacheCallers == {"h1", "h2"}
GetIdle == [pc |-> "idle", key |-> "none"]

InitCacheConc ==
    /\ ClockInit
    /\ budget = NewBudget(0, 0)
    /\ bseq = BSeqInit
    /\ callers = IdleCallers
    /\ bconc = BConcInit
    /\ BackfillIdle
    /\ NotifyIdle
    /\ SchedIdle
    /\ StorageIdle
    /\ RepoIdle
    /\ build = BuildIdle
    /\ TickIdle
    /\ PureIdle
    /\ ops = [t \in CacheCallers |-> GetIdle]
    /\ \E ttl \in 0..MaxTtl : cache = NewCache(ttl)
    /\ now = 0
    /\ cobs = CObsInit

CcUnchanged ==
    UNCHANGED <<utc_day, budget, bseq, callers, bconc, bfVars, ntVars, scVars,
                jsVars, hrVars, build, tkVars, pureVars>>

\* Time passes.
CcTick ==
    /\ now < MaxInstant
    /\ now' = now + 1
    /\ UNCHANGED <<cache, cobs, ops>>
    /\ CcUnchanged

\* insert(k, v) by a handler that is not inside a get.
CcInsert(t, k, v) ==
    /\ ops[t].pc = "idle"
    /\ cache' = CacheInsert(cache, k, v, now)
    /\ cobs' = [Observed("insert", k, "none") EXCEPT
                  !.last_insert = [key |-> k, value |-> v, at |-> now]]
    /\ UNCHANGED <<now, ops>>
    /\ CcUnchanged

\* get(k), lines 31-33: no entry returns None, an unexpired entry returns
\* its value; an expired entry leads to the removal.
CcGetCheck(t, k) ==
    /\ ops[t].pc = "idle"
    /\ IF Unexpired(cache.data, k, now)
       THEN /\ cobs' = Observed("get", k, cache.data[k].value)
            /\ UNCHANGED ops
       ELSE IF k \notin DOMAIN cache.data
       THEN /\ cobs' = Observed("get", k, Miss)
            /\ UNCHANGED ops
       ELSE /\ ops' = [ops EXCEPT ![t] = [pc |-> "remove", key |-> k]]
            /\ UNCHANGED cobs
    /\ UNCHANGED <<cache, now>>
    /\ CcUnchanged

\* get(k), lines 35-37: the guard is dropped and whatever entry the key has
\* now is removed; get returns None.
CcGetRemove(t) ==
    /\ ops[t].pc = "remove"
    /\ cache' = [cache EXCEPT !.data = MapDel(@, ops[t].key)]
    /\ cobs' = Observed("get_remove", ops[t].key, Miss)
    /\ ops' = [ops EXCEPT ![t] = GetIdle]
    /\ UNCHANGED now
    /\ CcUnchanged

NextCacheConc ==
    \/ CcTick
    \/ \E t \in CacheCallers : \E k \in Keys : \E v \in Values : CcInsert(t, k, v)
    \/ \E t \in CacheCallers : \E k \in Keys : CcGetCheck(t, k)
    \/ \E t \in CacheCallers : CcGetRemove(t)

SpecCacheConc == InitCacheConc /\ [][NextCacheConc]_vars

\* C26: get never removes an unexpired entry: the entry a get removes is one
\* whose expiry is not later than the instant of the removal, also when
\* another get of the same key is between its expiry check and its removal.
C26_GetNeverRemovesUnexpired ==
    cobs.op = "get_remove" =>
        ~Unexpired(cobs.before, cobs.key, cobs.at)

(***************************************************************************)
(* SpecHistoryRepo: the SqliteHistoryRepository (src/db/history_repo.rs)   *)
(* over a weather_history table: insert_batch and get_missing_timestamps.  *)
(* The table's rows are unique on (city, timestamp, units).                *)
(***************************************************************************)
MaxTs == 4             \* timestamps 0..MaxTs (in hours from T)
MaxStep == 2           \* interval_secs in 1..MaxStep
MaxBatch == 2          \* records per insert_batch call

HRecord(c, t, u, temp) ==
    [city |-> c, timestamp |-> t, units |-> u, temperature |-> temp]

\* The rows the table can hold: Chicago/metric at every timestamp, a second
\* reading for timestamp 0, and a row of another city and of other units.
Records ==
    {HRecord("Chicago", t, "metric", "20.5") : t \in 0..MaxTs}
    \cup {HRecord("Chicago", 0, "metric", "21.0"),
          HRecord("Austin", 1, "metric", "20.5"),
          HRecord("Chicago", 1, "imperial", "20.5")}
\* The records passed to insert_batch.
BatchRecords ==
    {HRecord("Chicago", 0, "metric", "20.5"), HRecord("Chicago", 0, "metric", "21.0"),
     HRecord("Chicago", 2, "metric", "20.5"), HRecord("Austin", 1, "metric", "20.5")}
Batches == UNION {[1..n -> BatchRecords] : n \in 0..MaxBatch}

\* The natural key, unique in weather_history.
NaturalKey(r) == <<r.city, r.timestamp, r.units>>
KeysOf(rows) == {NaturalKey(r) : r \in rows}
UniqueKeys(rows) == \A r1, r2 \in rows : NaturalKey(r1) = NaturalKey(r2) => r1 = r2

\* INSERT OR IGNORE of one record: rows_affected is 0 on a key conflict.
InsertOrReplace(rows, r) ==
    [rows |-> {x \in rows : NaturalKey(x) # NaturalKey(r)} \cup {r},
     rows_affected |-> 1]
InsertOrIgnore(rows, r) ==
    IF NaturalKey(r) \in KeysOf(rows)
    THEN [rows |-> rows, rows_affected |-> 0]
    ELSE [rows |-> rows \cup {r}, rows_affected |-> 1]

\* insert_batch: one INSERT OR IGNORE per record, counting the rows affected.
RECURSIVE InsertBatch(_, _, _)
InsertBatch(rows, records, inserted) ==
    IF records = <<>> THEN [rows |-> rows, inserted |-> inserted]
    ELSE LET res == InsertOrIgnore(rows, Head(records))
         IN  InsertBatch(res.rows, Tail(records),
                         IF res.rows_affected > 0 THEN inserted + 1 ELSE inserted)

\* SELECT timestamp ... WHERE city = ? AND timestamp >= ? AND timestamp <= ?
\* AND units = ?, collected into a set.
ExistingSet_AnyUnits(rows, q) ==
    {r.timestamp : r \in {x \in rows : /\ x.city = q.city
                                       /\ x.timestamp >= q.start_ts
                                       /\ x.timestamp <= q.end_ts}}
ExistingSet(rows, q) ==
    {r.timestamp : r \in {x \in rows : /\ x.city = q.city
                                       /\ x.timestamp >= q.start_ts
                                       /\ x.timestamp <= q.end_ts
                                       /\ x.units = q.units}}

\* The while loop of get_missing_timestamps, from ts on.
RECURSIVE MissingFrom(_, _, _)
MissingFrom(ts, existing, q) ==
    IF ts <= q.end_ts
    THEN (IF ts \notin existing THEN <<ts>> ELSE <<>>)
         \o MissingFrom(ts + q.interval_secs, existing, q)
    ELSE <<>>

GetMissingTimestamps(rows, q) == MissingFrom(q.start_ts, ExistingSet(rows, q), q)

\* The queries made: Chicago / metric over [start, end] with a positive step.
Queries ==
    [city : {"Chicago"}, start_ts : 0..1, end_ts : 0..MaxTs,
     interval_secs : 1..MaxStep, units : {"metric"}]

InitHistoryRepo ==
    /\ ClockInit
    /\ budget = NewBudget(0, 0)
    /\ bseq = BSeqInit
    /\ callers = IdleCallers
    /\ bconc = BConcInit
    /\ BackfillIdle
    /\ NotifyIdle
    /\ SchedIdle
    /\ OpsIdle
    /\ StorageIdle
    /\ CacheIdle
    /\ build = BuildIdle
    /\ TickIdle
    /\ PureIdle
    /\ table \in {rows \in SUBSET Records : UniqueKeys(rows)}
    /\ hobs = HObsInit

HrUnchanged ==
    UNCHANGED <<utc_day, budget, bseq, callers, bconc, bfVars, ntVars, scVars,
                ops, jsVars, chVars, build, tkVars, pureVars>>

insert_batch(records) ==
    /\ \E res \in {InsertBatch(table, records, 0)} :
          /\ table' = res.rows
          /\ hobs' = [HObsInit EXCEPT !.op = "insert_batch", !.before = table,
                                      !.batch = records, !.inserted = res.inserted]
    /\ HrUnchanged

get_missing_timestamps(q) ==
    /\ hobs' = [HObsInit EXCEPT !.op = "get_missing_timestamps", !.before = table,
                                !.query = q,
                                !.missing = GetMissingTimestamps(table, q)]
    /\ UNCHANGED table
    /\ HrUnchanged

NextHistoryRepo ==
    \/ \E records \in Batches : insert_batch(records)
    \/ \E q \in Queries : get_missing_timestamps(q)

SpecHistoryRepo == InitHistoryRepo /\ [][NextHistoryRepo]_vars

\* The positions of a batch that bring a key neither stored nor seen earlier.
NewPositions(rows, records) ==
    {i \in DOMAIN records :
        /\ NaturalKey(records[i]) \notin KeysOf(rows)
        /\ \A j \in 1..(i - 1) : NaturalKey(records[j]) # NaturalKey(records[i])}

\* C15: insert_batch returns the number of records whose key was neither
\* stored nor earlier in the batch; every row stored before is still there
\* with the same fields; the rows added are the first records of the new keys;
\* inserting the same batch again inserts nothing and leaves the table as is.
C15_InsertBatchDedupOnNaturalKey ==
    hobs.op = "insert_batch" =>
        /\ hobs.inserted = Cardinality(NewPositions(hobs.before, hobs.batch))
        /\ hobs.before \subseteq table
        /\ table \ hobs.before =
              {hobs.batch[i] : i \in NewPositions(hobs.before, hobs.batch)}
        /\ UniqueKeys(table)
        /\ InsertBatch(table, hobs.batch, 0) = [rows |-> table, inserted |-> 0]

\* insert_batch has just been given a stored key with another reading and a
\* new key: one row was inserted and the stored reading was kept.
C15_Witness ==
    /\ hobs.op = "insert_batch"
    /\ hobs.inserted = 1
    /\ Len(hobs.batch) = 2
    /\ HRecord("Chicago", 0, "metric", "20.5") \in hobs.before
    /\ hobs.batch[1] = HRecord("Chicago", 0, "metric", "21.0")
    /\ HRecord("Chicago", 0, "metric", "21.0") \notin table

\* The timestamps stored for the queried city and units.
StoredFor(rows, q) ==
    {r.timestamp : r \in {x \in rows : x.city = q.city /\ x.units = q.units}}
\* The buckets start + k*step that are <= end.
Grid(q) ==
    {t \in q.start_ts..q.end_ts :
        \E k \in 0..MaxTs : t = q.start_ts + k * q.interval_secs}
RangeOf(seq) == {seq[i] : i \in DOMAIN seq}
Ascending(seq) == \A i, j \in DOMAIN seq : i < j => seq[i] < seq[j]

\* C16: get_missing_timestamps returns, ascending, exactly the buckets
\* start + k*step <= end with no stored record of that city, units and
\* timestamp; rows of another city or other units and rows off the grid
\* remove no bucket; stored {T, T+2h} with a 1h step over [T, T+2h] gives
\* exactly [T+1h].
C16_MissingTimestampsExactlyUnstoredBuckets ==
    hobs.op = "get_missing_timestamps" =>
        /\ Ascending(hobs.missing)
        /\ RangeOf(hobs.missing) = Grid(hobs.query) \ StoredFor(hobs.before, hobs.query)
        /\ hobs.missing =
              GetMissingTimestamps(
                  {r \in hobs.before : /\ r.city = hobs.query.city
                                       /\ r.units = hobs.query.units
                                       /\ r.timestamp \in Grid(hobs.query)},
                  hobs.query)
        /\ (/\ hobs.query.start_ts = 0
            /\ hobs.query.end_ts = 2
            /\ hobs.query.interval_secs = 1
            /\ StoredFor(hobs.before, hobs.query) \cap 0..2 = {0, 2})
           => hobs.missing = <<1>>
        /\ table = hobs.before

\* The query of the example was made while rows of another city and of other
\* units were stored at the missing bucket.
C16_Witness ==
    /\ hobs.op = "get_missing_timestamps"
    /\ hobs.query.start_ts = 0
    /\ hobs.query.end_ts = 2
    /\ hobs.query.interval_secs = 1
    /\ StoredFor(hobs.before, hobs.query) \cap 0..2 = {0, 2}
    /\ HRecord("Austin", 1, "metric", "20.5") \in hobs.before
    /\ HRecord("Chicago", 1, "imperial", "20.5") \in hobs.before
    /\ hobs.missing = <<1>>

(***************************************************************************)
(* SpecCityList: build_city_list (src/backfill/runner.rs), the priority    *)
(* ordered, duplicate-free list of cities the backfill walks.              *)
(***************************************************************************)
MaxDevices == 3        \* devices passed to build_city_list
MaxListJobs == 1       \* scheduler jobs passed to build_city_list

\* Device.cities of the devices, and the devices (enabled or not).
DeviceCities == {<<>>, <<"austin", "chicago">>, <<"boston", "austin">>,
                 <<"elpaso", "elpaso">>}
ListDevices == [enabled : BOOLEAN, cities : DeviceCities]
\* ForecastJob.enabled and ForecastJob.city of the jobs.
ListJobs == [enabled : BOOLEAN, city : {"chicago", "denver"}]
\* HistoryBackfillConfig.fallback_cities.
Fallbacks == {<<>>, <<"denver">>, <<"chicago", "fresno">>}

SeqsUpTo(S, n) == UNION {[1..k -> S] : k \in 0..n}
IsEnabled(x) == x.enabled

\* IndexSet::insert: appended unless already present.
SetInsert(set, city) ==
    IF \E i \in DOMAIN set : set[i] = city THEN set ELSE Append(set, city)
RECURSIVE InsertEach(_, _)
InsertEach(set, cities) ==
    IF cities = <<>> THEN set
    ELSE InsertEach(SetInsert(set, Head(cities)), Tail(cities))

\* 1) the first city of each enabled device.
RECURSIVE FirstCities(_, _)
FirstCities(set, devices) ==
    IF devices = <<>> THEN set
    ELSE FirstCities(IF Head(devices).cities # <<>>
                     THEN SetInsert(set, Head(Head(devices).cities))
                     ELSE set,
                     Tail(devices))
\* 2) every city of the enabled devices.
RECURSIVE DeviceCitiesAll(_, _)
DeviceCitiesAll(set, devices) ==
    IF devices = <<>> THEN set
    ELSE DeviceCitiesAll(InsertEach(set, Head(devices).cities), Tail(devices))
\* 3) the city of each enabled job.
RECURSIVE JobCities(_, _)
JobCities(set, jobs) ==
    IF jobs = <<>> THEN set
    ELSE JobCities(SetInsert(set, Head(jobs).city), Tail(jobs))

BuildCityList_NoFirstPass(devices, jobs, fallback) ==
    InsertEach(
        JobCities(
            DeviceCitiesAll(<<>>, SelectSeq(devices, IsEnabled)),
            SelectSeq(jobs, IsEnabled)),
        fallback)
BuildCityList(devices, jobs, fallback) ==
    InsertEach(
        JobCities(
            DeviceCitiesAll(FirstCities(<<>>, SelectSeq(devices, IsEnabled)),
                            SelectSeq(devices, IsEnabled)),
            SelectSeq(jobs, IsEnabled)),
        fallback)

InitCityList ==
    /\ ClockInit
    /\ budget = NewBudget(0, 0)
    /\ bseq = BSeqInit
    /\ callers = IdleCallers
    /\ bconc = BConcInit
    /\ BackfillIdle
    /\ NotifyIdle
    /\ SchedIdle
    /\ OpsIdle
    /\ StorageIdle
    /\ CacheIdle
    /\ RepoIdle
    /\ TickIdle
    /\ PureIdle
    /\ \E devs \in SeqsUpTo(ListDevices, MaxDevices),
          jobs \in SeqsUpTo(ListJobs, MaxListJobs),
          fallback \in Fallbacks :
          build = [BuildIdle EXCEPT !.devices = devs, !.jobs = jobs,
                                    !.fallback = fallback]

build_city_list ==
    /\ ~build.built
    /\ build' = [build EXCEPT
                    !.cities = BuildCityList(build.devices, build.jobs, build.fallback),
                    !.built = TRUE]
    /\ UNCHANGED <<utc_day, budget, bseq, callers, bconc, bfVars, ntVars, scVars,
                   ops, jsVars, chVars, hrVars, tkVars, pureVars>>

NextCityList == build_city_list

SpecCityList == InitCityList /\ [][NextCityList]_vars

\* The claim's sequence: first cities, all device cities, job cities, fallback.
RECURSIVE Flatten(_)
Flatten(seqs) == IF seqs = <<>> THEN <<>> ELSE Head(seqs) \o Flatten(Tail(seqs))
EnabledDevices == SelectSeq(build.devices, IsEnabled)
EnabledJobs == SelectSeq(build.jobs, IsEnabled)
PrioritySequence ==
    Flatten([i \in DOMAIN EnabledDevices |->
                IF EnabledDevices[i].cities = <<>> THEN <<>>
                ELSE <<EnabledDevices[i].cities[1]>>])
    \o Flatten([i \in DOMAIN EnabledDevices |-> EnabledDevices[i].cities])
    \o [i \in DOMAIN EnabledJobs |-> EnabledJobs[i].city]
    \o build.fallback
FirstIndex(seq, x) == CHOOSE i \in DOMAIN seq :
                          seq[i] = x /\ \A j \in 1..(i - 1) : seq[j] # x

\* C17: build_city_list returns every city of an enabled device, an enabled
\* job or the fallback list exactly once, nothing else, ordered by first
\* occurrence in: first city of each enabled device, all cities of enabled
\* devices, cities of enabled jobs, fallback cities.
C17_CityListDedupInPriorityOrder ==
    build.built =>
        /\ RangeOf(build.cities) = RangeOf(PrioritySequence)
        /\ \A i, j \in DOMAIN build.cities :
              i # j => build.cities[i] # build.cities[j]
        /\ \A i, j \in DOMAIN build.cities :
              i < j => FirstIndex(PrioritySequence, build.cities[i])
                       < FirstIndex(PrioritySequence, build.cities[j])

\* Built from two enabled devices whose first cities come before their other
\* cities, a disabled device and a disabled job whose cities occur nowhere
\* else, and a fallback that repeats a device city.
C17_Witness ==
    /\ build.built
    /\ build.devices = <<[enabled |-> TRUE, cities |-> <<"austin", "chicago">>],
                         [enabled |-> FALSE, cities |-> <<"elpaso", "elpaso">>],
                         [enabled |-> TRUE, cities |-> <<"boston", "austin">>]>>
    /\ build.jobs = <<[enabled |-> FALSE, city |-> "denver"]>>
    /\ build.fallback = <<"chicago", "fresno">>
    /\ build.cities = <<"austin", "boston", "chicago", "fresno">>

(***************************************************************************)
(* SpecTick: the callback of a scheduled forecast job (schedule_job in     *)
(* src/scheduler/service.rs) and the manual trigger (run_now and the       *)
(* trigger_forecast handler of src/scheduler/handlers.rs).  Temperatures   *)
(* are whole degrees and precipitation probabilities are tenths.           *)
(***************************************************************************)
MaxDaily == 2          \* daily entries of a forecast snapshot

Temperatures == {-1, 0, 1, 2}
Pops == {0, 5, 6}
CurrentOptions == {None} \cup {Some(t) : t \in Temperatures}
Snapshots ==
    [current : CurrentOptions,
     daily : SeqsUpTo([precipitation_probability : Pops], MaxDaily),
     alerts : {<<>>, <<"Flood Warning">>}]

\* NotifyConfig of the job: the thresholds are absent or 0 (cold) and 1 (heat).
NotifyConfigs ==
    [on_run : BOOLEAN, on_alert : BOOLEAN, on_precipitation : BOOLEAN,
     cold_threshold : {None, Some(0)}, heat_threshold : {None, Some(1)}]
TickJobs ==
    [id : {"j1"}, name : {"Morning"}, city : {"Chicago"}, units : {"metric"},
     include_daily : BOOLEAN, enabled : {TRUE}, notify : NotifyConfigs]

\* What the closure of schedule_job captures from the job.
TickRegistration(job) ==
    [id |-> job.id, name |-> job.name, city |-> job.city, units |-> job.units,
     include_daily |-> job.include_daily, notify |-> job.notify]

\* The registered devices: token, enabled, cities (as the user typed them).
RegisteredDevices ==
    {[token |-> "t1", enabled |-> TRUE, cities |-> {"chicago"}],
     [token |-> "t2", enabled |-> TRUE, cities |-> {"Austin"}],
     [token |-> "t3", enabled |-> FALSE, cities |-> {"Chicago"}],
     [token |-> "t4", enabled |-> TRUE, cities |-> {}]}

ToLowercase(c) ==
    CASE c = "Chicago" -> "chicago"
      [] c = "Austin" -> "austin"
      [] OTHER -> c

\* DeviceStorage::get_by_city and get_enabled, as the tokens of the devices.
GetByCity(devs, city) ==
    {d.token : d \in {x \in devs :
        /\ x.enabled
        /\ \/ x.cities = {}
           \/ \E c \in x.cities : ToLowercase(c) = ToLowercase(city)}}
GetEnabled(devs) == {d.token : d \in {x \in devs : x.enabled}}

\* should_notify_for_forecast.
ShouldNotifyForForecast_InclusiveThresholds(forecast, config) ==
    IF config.on_run THEN TRUE
    ELSE IF config.on_alert /\ forecast.alerts # <<>> THEN TRUE
    ELSE IF /\ config.on_precipitation
            /\ \E i \in DOMAIN forecast.daily :
                  forecast.daily[i].precipitation_probability > 5
         THEN TRUE
    ELSE IF forecast.current.some
         THEN \/ /\ config.cold_threshold.some
                 /\ forecast.current.v <= config.cold_threshold.v
              \/ /\ config.heat_threshold.some
                 /\ forecast.current.v >= config.heat_threshold.v
    ELSE FALSE
ShouldNotifyForForecast(forecast, config) ==
    IF config.on_run THEN TRUE
    ELSE IF config.on_alert /\ forecast.alerts # <<>> THEN TRUE
    ELSE IF /\ config.on_precipitation
            /\ \E i \in DOMAIN forecast.daily :
                  forecast.daily[i].precipitation_probability > 5
         THEN TRUE
    ELSE IF forecast.current.some
         THEN \/ /\ config.cold_threshold.some
                 /\ forecast.current.v < config.cold_threshold.v
              \/ /\ config.heat_threshold.some
                 /\ forecast.current.v > config.heat_threshold.v
    ELSE FALSE

\* The body lines both message builders write, each under the builder's prefix.
BodyLines(forecast, prefix) ==
    (IF forecast.current.some
     THEN <<<<prefix, "Now", ToString(forecast.current.v)>>,
            <<prefix, "description", "">>>>
     ELSE <<>>)
    \o (IF forecast.daily # <<>>
        THEN <<<<prefix, "Today", "">>>>
             \o (IF forecast.daily[1].precipitation_probability > 0
                 THEN <<<<prefix, "Rain",
                          ToString(forecast.daily[1].precipitation_probability * 10)>>>>
                 ELSE <<>>)
        ELSE <<>>)
    \o (IF forecast.alerts # <<>>
        THEN <<<<prefix, "WEATHER ALERTS", "">>>>
             \o [i \in DOMAIN forecast.alerts |-> <<prefix, "-", forecast.alerts[i]>>]
        ELSE <<>>)
ForecastMessage(forecast, city, prefix) ==
    [title |-> <<prefix, "Weather", city>>,
     body |-> BodyLines(forecast, prefix),
     priority |-> IF forecast.alerts # <<>> THEN "Urgent" ELSE "Default",
     tags |-> IF forecast.alerts # <<>> THEN <<"warning", "weather">>
              ELSE <<"sunny", "weather">>,
     city |-> city]
\* build_notification_message (service.rs) and build_push_message
\* (handlers.rs, every line under an emoji).
BuildNotificationMessage(forecast, city) == ForecastMessage(forecast, city, "plain")
BuildPushMessage(forecast, city) == ForecastMessage(forecast, city, "emoji")

\* The message of the Err branch of the callback.
FailureMessage_DefaultPriority(job_name, city, e) ==
    [title |-> <<"plain", "Weather Alert Failed", job_name>>,
     body |-> <<<<"plain", "Failed to fetch forecast for", city, e>>>>,
     priority |-> "Default",
     tags |-> <<"warning">>,
     city |-> city]
FailureMessage(job_name, city, e) ==
    [title |-> <<"plain", "Weather Alert Failed", job_name>>,
     body |-> <<<<"plain", "Failed to fetch forecast for", city, e>>>>,
     priority |-> "High",
     tags |-> <<"warning">>,
     city |-> city]

\* DevicesService::send_to_city and broadcast: what is handed to the push client.
SendToCity(devs, city, message) ==
    [via |-> "send_to_city", message |-> message, recipients |-> GetByCity(devs, city)]
Broadcast(devs, message) ==
    [via |-> "broadcast", message |-> message, recipients |-> GetEnabled(devs)]

\* The callback of the job: one fetch, then the forecast or the failure push.
\* ForecastService::get_daily_forecast / get_forecast: the snapshot or an error.
Fetch(ok) ==
    [ok |-> ok, forecast |-> IF ok THEN weather ELSE NoWeather,
     error |-> IF ok THEN "" ELSE "Weather API error"]

TickRun(reg, devs, forecast_result) ==
    IF forecast_result.ok
    THEN [RunIdleObs EXCEPT
            !.op = "tick", !.fetches = 1, !.fetched = "Ok",
            !.pushes = IF ShouldNotifyForForecast(forecast_result.forecast, reg.notify)
                       THEN <<SendToCity(devs, reg.city,
                                         BuildNotificationMessage(forecast_result.forecast,
                                                                  reg.city))>>
                       ELSE <<>>]
    ELSE [RunIdleObs EXCEPT
            !.op = "tick", !.fetches = 1, !.fetched = "Err",
            !.pushes = <<SendToCity(devs, reg.city,
                                    FailureMessage(reg.name, reg.city,
                                                   forecast_result.error))>>]

\* run_now: one fetch, the message, send_to_city; an error is returned.
RunNow(devs, city, forecast_result) ==
    IF ~forecast_result.ok
    THEN [RunIdleObs EXCEPT !.op = "trigger", !.fetches = 1, !.fetched = "Err",
                            !.status = "Err"]
    ELSE [RunIdleObs EXCEPT
            !.op = "trigger", !.fetches = 1, !.fetched = "Ok", !.status = "Ok",
            !.pushes = <<SendToCity(devs, city,
                                    BuildNotificationMessage(forecast_result.forecast, city))>>]

\* trigger_forecast: run_now, then a second fetch and a broadcast of the
\* push message when that fetch succeeds.
TriggerForecast(devs, city, forecast_result, forecast_result2) ==
    LET r == RunNow(devs, city, forecast_result)
    IN  IF r.status = "Err" THEN [r EXCEPT !.status = "500"]
        ELSE IF forecast_result2.ok
        THEN [r EXCEPT !.fetches = 2, !.status = "200",
                       !.pushes = Append(@, Broadcast(devs,
                                            BuildPushMessage(forecast_result2.forecast, city)))]
        ELSE [r EXCEPT !.fetches = 2, !.status = "200"]

InitTick ==
    /\ ClockInit
    /\ budget = NewBudget(0, 0)
    /\ bseq = BSeqInit
    /\ callers = IdleCallers
    /\ bconc = BConcInit
    /\ BackfillIdle
    /\ NotifyIdle
    /\ OpsIdle
    /\ StorageIdle
    /\ CacheIdle
    /\ RepoIdle
    /\ build = BuildIdle
    /\ PureIdle
    /\ sched = SchedObsInit
    /\ file = <<>>
    /\ \E job \in TickJobs :
          /\ storage = [i \in {job.id} |-> job]
          /\ job_uuids = [i \in {job.id} |-> "u1"]
          /\ scheduler = [u \in {"u1"} |-> TickRegistration(job)]
    /\ weather \in Snapshots
    /\ device_storage = RegisteredDevices
    /\ tick = RunIdleObs
    /\ trig = RunIdleObs

TkUnchanged ==
    UNCHANGED <<utc_day, budget, bseq, callers, bconc, bfVars, ntVars, scVars,
                ops, jsVars, chVars, hrVars, build, weather, device_storage,
                pureVars>>

\* The cron engine fires the registration u; the fetch succeeds or fails.
Tick(u, ok) ==
    /\ u \in DOMAIN scheduler
    /\ tick' = TickRun(scheduler[u], device_storage, Fetch(ok))
    /\ UNCHANGED trig
    /\ TkUnchanged

\* POST /scheduler/trigger for a city; each of its fetches succeeds or fails.
trigger_forecast(city, ok, ok2) ==
    /\ trig' = TriggerForecast(device_storage, city, Fetch(ok), Fetch(ok2))
    /\ UNCHANGED tick
    /\ TkUnchanged

NextTick ==
    \/ \E u \in Uuids, ok \in BOOLEAN : Tick(u, ok)
    \/ \E ok \in BOOLEAN, ok2 \in BOOLEAN : trigger_forecast("Chicago", ok, ok2)

SpecTick == InitTick /\ [][NextTick]_vars

\* The pushes of a run that carry a forecast (not the failure message).
ForecastPushes(obs) ==
    {i \in DOMAIN obs.pushes : obs.pushes[i].message.title[2] = "Weather"}
TickNotify == scheduler["u1"].notify

\* C18: a tick whose fetch succeeded sends a forecast notification iff on_run,
\* or on_alert with an alert in the snapshot, or on_precipitation with a daily
\* probability above 0.5, or a current temperature strictly below the cold or
\* strictly above the heat threshold; otherwise it sends nothing.
C18_TickNotifiesIffSomeTrigger ==
    (tick.op = "tick" /\ tick.fetched = "Ok") =>
        LET some_trigger ==
                \/ TickNotify.on_run
                \/ TickNotify.on_alert /\ Len(weather.alerts) >= 1
                \/ /\ TickNotify.on_precipitation
                   /\ \E i \in DOMAIN weather.daily :
                         weather.daily[i].precipitation_probability > 5
                \/ /\ weather.current.some
                   /\ \/ /\ TickNotify.cold_threshold.some
                         /\ weather.current.v < TickNotify.cold_threshold.v
                      \/ /\ TickNotify.heat_threshold.some
                         /\ weather.current.v > TickNotify.heat_threshold.v
        IN  /\ some_trigger <=> ForecastPushes(tick) # {}
            /\ ~some_trigger => tick.pushes = <<>>
            /\ Len(tick.pushes) <= 1

\* A tick ran with both thresholds set, the temperature equal to the heat
\* threshold, a probability of exactly 0.5 and no alert, and sent nothing.
C18_Witness ==
    /\ tick.op = "tick"
    /\ tick.fetched = "Ok"
    /\ ~TickNotify.on_run
    /\ TickNotify.on_alert
    /\ TickNotify.on_precipitation
    /\ TickNotify.cold_threshold = Some(0)
    /\ TickNotify.heat_threshold = Some(1)
    /\ weather.current = Some(1)
    /\ weather.alerts = <<>>
    /\ Len(weather.daily) = 2
    /\ weather.daily[2].precipitation_probability = 5
    /\ tick.pushes = <<>>

\* C19: a tick whose fetch failed has fetched once, dispatched exactly one
\* notification, the failure message with priority High naming the job, the
\* city and the error, and no forecast notification; the registration and
\* the stored record of the job are as they were, and the tick can fire again.
C19_FailedFetchSendsOneHighPriorityFailure ==
    (tick.op = "tick" /\ tick.fetched = "Err") =>
        /\ tick.fetches = 1
        /\ Len(tick.pushes) = 1
        /\ tick.pushes[1].message.priority = "High"
        /\ tick.pushes[1].message.title = <<"plain", "Weather Alert Failed", "Morning">>
        /\ tick.pushes[1].message.body =
              <<<<"plain", "Failed to fetch forecast for", "Chicago", "Weather API error">>>>
        /\ tick.pushes[1].via = "send_to_city"
        /\ ForecastPushes(tick) = {}
        /\ job_uuids = [i \in {"j1"} |-> "u1"]
        /\ DOMAIN scheduler = {"u1"}
        /\ DOMAIN storage = {"j1"}
        /\ scheduler["u1"] = TickRegistration(storage["j1"])
        /\ ENABLED Tick("u1", TRUE)

\* A tick failed to fetch for a job that notifies on every run, and its one
\* push went to the devices subscribed to the job's city.
C19_Witness ==
    /\ tick.op = "tick"
    /\ tick.fetched = "Err"
    /\ TickNotify.on_run
    /\ Len(tick.pushes) = 1
    /\ tick.pushes[1].message.priority = "High"
    /\ tick.pushes[1].recipients = {"t1", "t4"}

\* C20: for the same snapshot, every notification of a successful manual
\* trigger has the title, body, priority and tags of the forecast notification
\* of a tick that notified, and goes to the same recipients.
C20_ManualTriggerSameShapeAsTick ==
    (/\ trig.op = "trigger"
     /\ trig.status = "200"
     /\ tick.op = "tick"
     /\ ForecastPushes(tick) # {}) =>
        \A i \in DOMAIN trig.pushes : \A j \in ForecastPushes(tick) :
            /\ trig.pushes[i].message.title = tick.pushes[j].message.title
            /\ trig.pushes[i].message.body = tick.pushes[j].message.body
            /\ trig.pushes[i].message.priority = tick.pushes[j].message.priority
            /\ trig.pushes[i].message.tags = tick.pushes[j].message.tags
            /\ trig.pushes[i].recipients = tick.pushes[j].recipients

(***************************************************************************)
(* SpecLoadJobs: SchedulerService::load_jobs over a running service, with  *)
(* edits (update_job) and deletions between the loads.  The file save and  *)
(* the engine add of a load succeed or fail.  Here sched observes the last *)
(* call: its name, the config it was given, the service before it, and     *)
(* whether it repeats the load before it.                                  *)
(***************************************************************************)
\* JobConfig.jobs of the configuration file.
LoadConfigs ==
    {<<[id |-> "j1", cron |-> "0 30 5 * * *", timezone |-> "UTC",
        enabled |-> TRUE, notify |-> TRUE]>>,
     <<[id |-> "j1", cron |-> "0 30 5 * * *", timezone |-> "UTC",
        enabled |-> TRUE, notify |-> TRUE],
       [id |-> "j2", cron |-> "0 0 7 * * *", timezone |-> "America/Chicago",
        enabled |-> FALSE, notify |-> FALSE]>>,
     <<[id |-> "j1", cron |-> "not-a-cron", timezone |-> "UTC",
        enabled |-> TRUE, notify |-> TRUE],
       [id |-> "j2", cron |-> "0 0 7 * * *", timezone |-> "America/Chicago",
        enabled |-> TRUE, notify |-> FALSE]>>,
     <<[id |-> "j2", cron |-> "0 30 5 * * *", timezone |-> "UTC",
        enabled |-> TRUE, notify |-> TRUE],
       [id |-> "j2", cron |-> "0 0 7 * * *", timezone |-> "America/Chicago",
        enabled |-> TRUE, notify |-> FALSE]>>}
\* The edits made between loads.
LoadEdits ==
    {j \in Jobs : /\ j.cron = "0 0 7 * * *"
                  /\ j.timezone = "America/Chicago"}

\* load_jobs: create_job for every config job whose id is not stored; a
\* failed create_job is logged and the loop goes on.
RECURSIVE LoadJobs_NoExistsCheck(_, _, _, _)
LoadJobs_NoExistsCheck(st, jobs, saveOk, addOk) ==
    IF jobs = <<>> THEN st
    ELSE LoadJobs_NoExistsCheck(CreateJob(st, Head(jobs), saveOk, addOk).st,
                                Tail(jobs), saveOk, addOk)
RECURSIVE LoadJobs(_, _, _, _)
LoadJobs(st, jobs, saveOk, addOk) ==
    IF jobs = <<>> THEN st
    ELSE LoadJobs(IF Head(jobs).id \in DOMAIN st.storage THEN st
                  ELSE CreateJob(st, Head(jobs), saveOk, addOk).st,
                  Tail(jobs), saveOk, addOk)

LoadObs(op, config, repeat) ==
    [op |-> op, config |-> config, before |-> Svc, repeat |-> repeat]

InitLoadJobs ==
    /\ ClockInit
    /\ budget = NewBudget(0, 0)
    /\ bseq = BSeqInit
    /\ callers = IdleCallers
    /\ bconc = BConcInit
    /\ BackfillIdle
    /\ NotifyIdle
    /\ RestIdle
    /\ storage = <<>>
    /\ file = <<>>
    /\ job_uuids = <<>>
    /\ scheduler = <<>>
    /\ sched = LoadObs("new", <<>>, FALSE)

LjReturns(st) ==
    /\ storage' = st.storage
    /\ file' = st.file
    /\ job_uuids' = st.job_uuids
    /\ scheduler' = st.scheduler
    /\ ScUnchanged

load_jobs(config, saveOk, addOk) ==
    /\ sched' = LoadObs("load_jobs", config,
                        sched.op = "load_jobs" /\ sched.config = config)
    /\ LjReturns(LoadJobs(Svc, config, saveOk, addOk))

LjUpdateJob(job) ==
    /\ job.id \in DOMAIN storage
    /\ sched' = LoadObs("update_job", <<>>, FALSE)
    /\ LjReturns(UpdateJob(Svc, job, TRUE, TRUE, TRUE).st)

LjDeleteJob(id) ==
    /\ id \in DOMAIN storage
    /\ sched' = LoadObs("delete_job", <<>>, FALSE)
    /\ LjReturns(DeleteJob(Svc, id, TRUE, TRUE).st)

NextLoadJobs ==
    \/ \E config \in LoadConfigs, saveOk \in BOOLEAN, addOk \in BOOLEAN :
          load_jobs(config, saveOk, addOk)
    \/ \E j \in LoadEdits : LjUpdateJob(j)
    \/ \E i \in JobIds : LjDeleteJob(i)

SpecLoadJobs == InitLoadJobs /\ [][NextLoadJobs]_vars

\* What the service holds for an id: its record, handle and registrations.
HeldFor(st, id) ==
    [record |-> IF id \in DOMAIN st.storage THEN <<st.storage[id]>> ELSE <<>>,
     handle |-> IF id \in DOMAIN st.job_uuids THEN <<st.job_uuids[id]>> ELSE <<>>,
     registrations |-> {u \in DOMAIN st.scheduler : st.scheduler[u].id = id}]

\* C21: load_jobs skips a config job whose id is stored, leaving its record
\* (edits included), its handle and its registration as they were; a load
\* repeated with the same config leaves records, file, handles and
\* registrations exactly as the first load left them.
C21_LoadJobsSkipsStoredAndIsIdempotent ==
    sched.op = "load_jobs" =>
        /\ \A i \in DOMAIN sched.config :
              sched.config[i].id \in DOMAIN sched.before.storage
              => HeldFor(Svc, sched.config[i].id)
                     = HeldFor(sched.before, sched.config[i].id)
        /\ sched.repeat => Svc = sched.before

\* A load has just skipped j2, stored with an edit that differs from the config
\* and disabled, and the same load ran just before it.
C21_Witness ==
    /\ sched.op = "load_jobs"
    /\ sched.repeat
    /\ Len(sched.config) = 2
    /\ sched.config[2].id = "j2"
    /\ "j2" \in DOMAIN storage
    /\ storage["j2"] # sched.config[2]
    /\ storage["j2"] # sched.config[1]
    /\ "j1" \in DOMAIN job_uuids

(***************************************************************************)
(* SpecSchedFaults: create_job, update_job and delete_job of a running     *)
(* SchedulerService whose collaborators can fail: the save of the job file *)
(* (JobStorage::save), the engine's add and the engine's remove.  Here     *)
(* sched observes the last call: its name, its job, its result and the     *)
(* service before it.                                                      *)
(***************************************************************************)
\* The jobs callers pass: j1 with either valid setting or a bad cron.
FaultJobs == {j \in Jobs : j.id = "j1" /\ ValidTimezone(j.timezone)}

FaultObs(op, job, res) == [op |-> op, job |-> job, result |-> res, before |-> Svc]

InitSchedFaults ==
    /\ ClockInit
    /\ budget = NewBudget(0, 0)
    /\ bseq = BSeqInit
    /\ callers = IdleCallers
    /\ bconc = BConcInit
    /\ BackfillIdle
    /\ NotifyIdle
    /\ RestIdle
    /\ storage = <<>>
    /\ file = <<>>
    /\ job_uuids = <<>>
    /\ scheduler = <<>>
    /\ sched = FaultObs("new", <<>>, "Ok")

FtCreateJob(job, saveOk, addOk) ==
    \E r \in {CreateJob(Svc, job, saveOk, addOk)} :
        /\ sched' = FaultObs("create_job", <<job>>, r.res)
        /\ LjReturns(r.st)

FtUpdateJob(job, rmOk, saveOk, addOk) ==
    \E r \in {UpdateJob(Svc, job, rmOk, saveOk, addOk)} :
        /\ sched' = FaultObs("update_job", <<job>>, r.res)
        /\ LjReturns(r.st)

FtDeleteJob(id, rmOk, saveOk) ==
    \E r \in {DeleteJob(Svc, id, rmOk, saveOk)} :
        /\ sched' = FaultObs("delete_job", <<>>, r.res)
        /\ LjReturns(r.st)

NextSchedFaults ==
    \/ \E j \in FaultJobs, saveOk \in BOOLEAN, addOk \in BOOLEAN :
          FtCreateJob(j, saveOk, addOk)
    \/ \E j \in FaultJobs, rmOk \in BOOLEAN, saveOk \in BOOLEAN, addOk \in BOOLEAN :
          FtUpdateJob(j, rmOk, saveOk, addOk)
    \/ \E rmOk \in BOOLEAN, saveOk \in BOOLEAN : FtDeleteJob("j1", rmOk, saveOk)

SpecSchedFaults == InitSchedFaults /\ [][NextSchedFaults]_vars

\* get_job(id) and whether the id is scheduled, in service state st.
GetJob(st, id) == IF id \in DOMAIN st.storage THEN <<st.storage[id]>> ELSE <<>>
IsScheduled(st, id) ==
    \/ id \in DOMAIN st.job_uuids
    \/ \E u \in DOMAIN st.scheduler : st.scheduler[u].id = id

\* C27: a create_job or update_job that returns an error, whatever the
\* reason, leaves get_job(id) returning what it returned before the call and
\* the id scheduled iff it was scheduled before.
C27_FailedCreateOrUpdateChangesNothing ==
    (sched.op \in {"create_job", "update_job"} /\ sched.result # "Ok") =>
        /\ GetJob(Svc, sched.job[1].id) = GetJob(sched.before, sched.job[1].id)
        /\ IsScheduled(Svc, sched.job[1].id)
              <=> IsScheduled(sched.before, sched.job[1].id)

\* The part of C27 that holds: a call rejected by validation or by the
\* existence check changes nothing at all.
RejectedCallChangesNothing ==
    (/\ sched.op \in {"create_job", "update_job"}
     /\ sched.result \in {"InvalidCron", "InvalidTimezone", "NotFound"}) =>
        Svc = sched.before

(***************************************************************************)
(* SpecTrend: compute_trend_summary and compute_trend_direction            *)
(* (src/history/service.rs).  Temperatures are hundredths of a degree, so  *)
(* every sum below is exact.  The code computes in f64: where the exact    *)
(* slope equals the threshold its rounding decides the comparison, and     *)
(* both outcomes are taken.                                                *)
(***************************************************************************)
\* threshold = 0.1 degrees per day, in hundredths.
SlopeThreshold == 10

\* DailyHistorySummary.temp_avg of the days: slow steps of 0.05 and fast
\* steps of 2 degrees.
TempAvgs == {1000, 1005, 1010, 1015, 1020, 1200, 1400, 1600, 1800}
DayCounts == {0, 1, 2, 5}
DayLists == UNION {[1..n -> TempAvgs] : n \in DayCounts}

RECURSIVE SumOver(_, _)
SumOver(f, n) == IF n = 0 THEN 0 ELSE f[n] + SumOver(f, n - 1)

\* n * sum_xy - sum_x * sum_y and n * sum_x2 - sum_x * sum_x, with x the day
\* index 0, 1, 2, ...
SlopeNumerator(days) ==
    LET n == Len(days)
    IN  n * SumOver([i \in 1..n |-> (i - 1) * days[i]], n)
        - SumOver([i \in 1..n |-> i - 1], n) * SumOver(days, n)
Denominator(days) ==
    LET n == Len(days)
    IN  n * SumOver([i \in 1..n |-> (i - 1) * (i - 1)], n)
        - SumOver([i \in 1..n |-> i - 1], n) * SumOver([i \in 1..n |-> i - 1], n)

\* compute_trend_direction: the classifications the comparison of the slope
\* with the threshold can give.
TrendDirections_SignSwapped(days) ==
    IF Len(days) < 2 THEN {"stable"}
    ELSE IF Denominator(days) = 0 THEN {"stable"}
    ELSE LET num == SlopeNumerator(days)
             bound == SlopeThreshold * Denominator(days)
         IN  IF num > bound THEN {"falling"}
             ELSE IF num = bound THEN {"falling", "stable"}
             ELSE IF num < -bound THEN {"rising"}
             ELSE IF num = -bound THEN {"rising", "stable"}
             ELSE {"stable"}
TrendDirections(days) ==
    IF Len(days) < 2 THEN {"stable"}
    ELSE IF Denominator(days) = 0 THEN {"stable"}
    ELSE LET num == SlopeNumerator(days)
             bound == SlopeThreshold * Denominator(days)
         IN  IF num > bound THEN {"rising"}
             ELSE IF num = bound THEN {"rising", "stable"}
             ELSE IF num < -bound THEN {"falling"}
             ELSE IF num = -bound THEN {"falling", "stable"}
             ELSE {"stable"}

\* compute_trend_summary: the zero summary for no days, else the average
\* (rounded to hundredths) and the direction.
ComputeTrendSummaries(days) ==
    IF days = <<>> THEN {[avg_temp |-> 0, temp_trend |-> "stable"]}
    ELSE {[avg_temp |-> (2 * SumOver(days, Len(days)) + Len(days))
                          \div (2 * Len(days)),
           temp_trend |-> d] : d \in TrendDirections(days)}

InitTrend ==
    /\ ClockInit
    /\ budget = NewBudget(0, 0)
    /\ bseq = BSeqInit
    /\ callers = IdleCallers
    /\ bconc = BConcInit
    /\ BackfillIdle
    /\ NotifyIdle
    /\ SchedIdle
    /\ OpsIdle
    /\ StorageIdle
    /\ CacheIdle
    /\ RepoIdle
    /\ build = BuildIdle
    /\ TickIdle
    /\ expo = ExpoIdle
    /\ \E days \in DayLists : trend = [TrendIdle EXCEPT !.days = days]

compute_trend_summary ==
    /\ ~trend.computed
    /\ \E summary \in ComputeTrendSummaries(trend.days) :
          trend' = [trend EXCEPT !.summary = summary, !.computed = TRUE]
    /\ UNCHANGED <<utc_day, budget, bseq, callers, bconc, bfVars, ntVars, scVars,
                   ops, jsVars, chVars, hrVars, build, tkVars, expo>>

NextTrend == compute_trend_summary

SpecTrend == InitTrend /\ [][NextTrend]_vars

StrictlyIncreasing(days) == \A i \in 1..(Len(days) - 1) : days[i] < days[i + 1]
StrictlyDecreasing(days) == \A i \in 1..(Len(days) - 1) : days[i] > days[i + 1]
\* Each day differs from the one before by more than the threshold.
StepsAbove(days) ==
    \A i \in 1..(Len(days) - 1) : days[i + 1] - days[i] > SlopeThreshold
StepsBelow(days) ==
    \A i \in 1..(Len(days) - 1) : days[i] - days[i + 1] > SlopeThreshold

ChunkSize == 100
\* The numbers of recipients of a send.
TokenCounts == {0, 1, 99, 100, 101, 200, 201}
ChunkOutcomes ==
    {"network_error", "status_error", "parse_error", "tickets_ok",
     "ticket_rejected", "no_tickets"}
MaxChunks == 3

\* slice::chunks(n): consecutive pieces of n elements, the last one shorter.
RECURSIVE Chunks(_, _)
Chunks(q, n) ==
    IF q = <<>> THEN <<>>
    ELSE IF Len(q) <= n THEN <<q>>
    ELSE <<SubSeq(q, 1, n)>> \o Chunks(SubSeq(q, n + 1, Len(q)), n)

ExpoOk(i) == [ok |-> TRUE, chunk |-> i, error |-> "none"]
ExpoErr(i, e) == [ok |-> FALSE, chunk |-> i, error |-> e]

\* The results chunk number i adds, for the way its request ended.
ChunkResults_SingleFailure(i, chunk, outcome) ==
    CASE outcome = "tickets_ok" -> [k \in DOMAIN chunk |-> ExpoOk(i)]
      [] outcome = "ticket_rejected" ->
            [k \in DOMAIN chunk |-> IF k = 1 THEN ExpoErr(i, "DeviceNotRegistered")
                                    ELSE ExpoOk(i)]
      [] outcome = "no_tickets" -> <<>>
      [] OTHER -> <<ExpoErr(i, outcome)>>
ChunkResults(i, chunk, outcome) ==
    CASE outcome = "tickets_ok" -> [k \in DOMAIN chunk |-> ExpoOk(i)]
      [] outcome = "ticket_rejected" ->
            [k \in DOMAIN chunk |-> IF k = 1 THEN ExpoErr(i, "DeviceNotRegistered")
                                    ELSE ExpoOk(i)]
      [] outcome = "no_tickets" -> <<>>
      [] OTHER -> [k \in DOMAIN chunk |-> ExpoErr(i, outcome)]

\* The loop over the chunks from chunk number i on: one request per chunk,
\* its results appended, whatever the outcome.
RECURSIVE SendChunks(_, _, _, _)
SendChunks(chunks, outcomes, i, acc) ==
    IF i > Len(chunks) THEN acc
    ELSE SendChunks(chunks, outcomes, i + 1,
                    [acc EXCEPT
                       !.calls = Append(@, [to |-> chunks[i], outcome |-> outcomes[i]]),
                       !.results = @ \o ChunkResults(i, chunks[i], outcomes[i])])

SendToTokens(tokens, outcomes) ==
    SendChunks(Chunks(tokens, ChunkSize), outcomes, 1,
               [calls |-> <<>>, results |-> <<>>])

InitExpo ==
    /\ ClockInit
    /\ budget = NewBudget(0, 0)
    /\ bseq = BSeqInit
    /\ callers = IdleCallers
    /\ bconc = BConcInit
    /\ BackfillIdle
    /\ NotifyIdle
    /\ SchedIdle
    /\ OpsIdle
    /\ StorageIdle
    /\ CacheIdle
    /\ RepoIdle
    /\ build = BuildIdle
    /\ TickIdle
    /\ trend = TrendIdle
    /\ \E n \in TokenCounts : expo = [ExpoIdle EXCEPT !.tokens = [k \in 1..n |-> k]]

send_to_tokens ==
    /\ ~expo.sent
    /\ \E outcomes \in [1..MaxChunks -> ChunkOutcomes] :
         \E r \in {SendToTokens(expo.tokens, outcomes)} :
            expo' = [expo EXCEPT !.calls = r.calls, !.results = r.results,
                                 !.sent = TRUE]
    /\ UNCHANGED <<utc_day, budget, bseq, callers, bconc, bfVars, ntVars, scVars,
                   ops, jsVars, chVars, hrVars, build, tkVars, trend>>

NextExpo == send_to_tokens

SpecExpo == InitExpo /\ [][NextExpo]_vars

\* The number of chunks of n recipients, and the recipients of chunk i.
ChunkCount(n) == (n + ChunkSize - 1) \div ChunkSize
Recipients(tokens, i) ==
    [k \in 1..(IF i * ChunkSize <= Len(tokens) THEN ChunkSize
               ELSE Len(tokens) - (i - 1) * ChunkSize)
       |-> tokens[(i - 1) * ChunkSize + k]]
ResultsOf(i) == SelectSeq(expo.results, LAMBDA r : r.chunk = i)
RequestFailed(outcome) == outcome \in {"network_error", "status_error"}

\* C29: send_to_tokens makes one request per consecutive chunk of at most 100
\* recipients, for every chunk whatever happened to the ones before; a chunk
\* whose request fails at the network level or returns a non-success status
\* yields exactly one failure result per recipient of that chunk.
C29_FailedChunkFailsItsRecipientsOnly ==
    expo.sent =>
        /\ Len(expo.calls) = ChunkCount(Len(expo.tokens))
        /\ \A i \in DOMAIN expo.calls :
              /\ expo.calls[i].to = Recipients(expo.tokens, i)
              /\ Len(expo.calls[i].to) \in 1..ChunkSize
              /\ RequestFailed(expo.calls[i].outcome) =>
                    /\ Len(ResultsOf(i)) = Len(expo.calls[i].to)
                    /\ \A k \in DOMAIN ResultsOf(i) :
                          /\ ~ResultsOf(i)[k].ok
                          /\ ResultsOf(i)[k].error = expo.calls[i].outcome
              /\ expo.calls[i].outcome = "tickets_ok" =>
                    /\ Len(ResultsOf(i)) = Len(expo.calls[i].to)
                    /\ \A k \in DOMAIN ResultsOf(i) : ResultsOf(i)[k].ok

\* 201 recipients: the first chunk's request failed at the network level, the
\* second was answered with tickets, the third (one recipient) got a
\* non-success status: 101 failures around 100 successes.
C29_Witness ==
    /\ expo.sent
    /\ Len(expo.tokens) = 201
    /\ Len(expo.calls) = 3
    /\ expo.calls[1].outcome = "network_error"
    /\ expo.calls[2].outcome = "tickets_ok"
    /\ expo.calls[3].outcome = "status_error"
    /\ Len(expo.results) = 201
    /\ ~expo.results[1].ok /\ expo.results[101].ok /\ ~expo.results[201].ok

====
